---- MODULE Spec2Model ----
(***************************************************************************)
(* Verification model of udp2docker: the binary message protocol           *)
(* (src/src/message_protocol.cpp) and the UDP client                       *)
(* (src/src/udp_client.cpp).                                               *)
(*                                                                         *)
(* Representation of machine integers.  TLC integers are 32-bit signed,    *)
(* so a uint32_t is kept as the pair <<hi, lo>> of its 16-bit halves; all  *)
(* uint32 arithmetic below is done on the halves and wraps at 2^32 as the  *)
(* C++ type does.  A uint16_t and a byte are plain integers.  std::memcpy  *)
(* of an integer is modelled for a little-endian host.                     *)
(***************************************************************************)
EXTENDS Integers, Sequences, FiniteSets, TLC

\* std::optional and "not produced yet" results: tagged tuples, so that any
\* two of them can be compared
None == <<"none">>

NotYet == <<"not_yet">>

Some(v) == <<"some", v>>

IsSome(x) == x[1] = "some"

Val(x) == x[2]

(* ------------------------------------------------------------------ *)
(* Bounds of the model                                                 *)
(* ------------------------------------------------------------------ *)
MaxLen == 2
MaxCalls == 4
MaxIo == 3
MaxLog == 3
MaxCap == 2
MaxCfg == 3

(* ------------------------------------------------------------------ *)
(* Fixed-width integers                                                *)
(* ------------------------------------------------------------------ *)
Half == 65536

U32(n) == <<n \div Half, n % Half>>

U32Zero == <<0, 0>>

U32Max == <<Half - 1, Half - 1>>

U32Inc(x) ==
    IF x[2] < Half - 1 THEN <<x[1], x[2] + 1>>
    ELSE IF x[1] < Half - 1 THEN <<x[1] + 1, 0>>
    ELSE <<0, 0>>

U32Add(x, y) ==
    LET lo == x[2] + y[2]
        hi == x[1] + y[1] + (lo \div Half)
    IN <<hi % Half, lo % Half>>

\* x - 1, wrapping at 0
U32Dec(x) ==
    IF x[2] > 0 THEN <<x[1], x[2] - 1>>
    ELSE IF x[1] > 0 THEN <<x[1] - 1, Half - 1>>
    ELSE <<Half - 1, Half - 1>>

U32Less(x, y) == x[1] < y[1] \/ (x[1] = y[1] /\ x[2] < y[2])

\* n < x for a container size n (a size_t below 2^31) and a uint32 x
SizeLessU32(n, x) == U32Less(U32(n), x)

RECURSIVE XorBits(_, _, _)
XorBits(a, b, n) ==
    IF n = 0 THEN 0
    ELSE ((a + b) % 2) + 2 * XorBits(a \div 2, b \div 2, n - 1)

\* a ^ b for two bytes, tabulated once
XorByte == [a \in 0..255 |-> [b \in 0..255 |-> XorBits(a, b, 8)]]

Xor16(a, b) ==
    XorByte[a % 256][b % 256] + 256 * XorByte[a \div 256][b \div 256]

U32Xor(x, y) == <<Xor16(x[1], y[1]), Xor16(x[2], y[2])>>

U32Shr1(x) == <<x[1] \div 2, (x[2] \div 2) + (x[1] % 2) * (Half \div 2)>>

U32Not(x) == <<Half - 1 - x[1], Half - 1 - x[2]>>

\* std::memcpy of a uint16_t / uint32_t into a byte buffer and back
LE16(v) == <<v % 256, v \div 256>>

LE32(x) == LE16(x[2]) \o LE16(x[1])

FromLE16(data, off) == data[off + 1] + 256 * data[off + 2]

FromLE32(data, off) == <<FromLE16(data, off + 2), FromLE16(data, off)>>

\* data[lo+1 .. hi] : the iterator range [begin + lo, begin + hi)
Slice(data, lo, hi) == [i \in 1..(hi - lo) |-> data[lo + i]]

(* ------------------------------------------------------------------ *)
(* Wire constants and enumerations (common.h, message_protocol.h)      *)
(* ------------------------------------------------------------------ *)
MAX_BUFFER_SIZE == 65536

header_size == 32

\* 0x55AA55AA
MAGIC == <<21930, 21930>>

\* 0xEDB88320
CRC_POLY == <<60856, 33568>>

HEARTBEAT == 1
DATA == 2
CONTROL == 3
RESPONSE == 4
MESSAGE_ERROR == 5

MessageTypes == {HEARTBEAT, DATA, CONTROL, RESPONSE, MESSAGE_ERROR}

LOW == 1
NORMAL == 2
HIGH == 3
CRITICAL == 4

Priorities == {LOW, NORMAL, HIGH, CRITICAL}

(* ------------------------------------------------------------------ *)
(* MessageProtocol::calculate_checksum                                 *)
(* ------------------------------------------------------------------ *)
\* one pass of the inner loop: if (checksum & 1) ... else checksum >>= 1
CrcBit(c) ==
    IF c[2] % 2 = 1 THEN U32Xor(U32Shr1(c), CRC_POLY) ELSE U32Shr1(c)

\* checksum ^= b, then the eight passes of the inner loop
CrcByte(c, b) ==
    CrcBit(CrcBit(CrcBit(CrcBit(CrcBit(CrcBit(CrcBit(CrcBit(
        <<c[1], Xor16(c[2], b)>>))))))))

\* the loop "for (byte b : data)" over data[lo..hi], left to right
RECURSIVE CrcFold(_, _, _, _)
CrcFold(c, data, lo, hi) ==
    IF lo > hi THEN c
    ELSE IF lo = hi THEN CrcByte(c, data[lo])
    ELSE LET mid == (lo + hi) \div 2
             left == CrcFold(c, data, lo, mid)
         IN \* the test makes the left half's value be computed first
            IF left[1] >= 0 THEN CrcFold(left, data, mid + 1, hi) ELSE left

calculate_checksum(data) == U32Not(CrcFold(U32Max, data, 1, Len(data)))

(* ------------------------------------------------------------------ *)
(* MessageHeader and Message (message_protocol.h)                      *)
(* ------------------------------------------------------------------ *)
\* the default member initialisers of struct MessageHeader
DefaultHeader ==
    [magic_number |-> MAGIC, version |-> 1, type |-> DATA,
     priority |-> NORMAL, sequence_id |-> U32Zero, timestamp |-> U32Zero,
     payload_size |-> U32Zero, checksum |-> U32Zero]

\* Message() = default
DefaultMessage == [header |-> DefaultHeader, payload |-> <<>>, metadata |-> {}]

\* Message::Message(MessageType, const buffer_t& / const string_t&, Priority)
MessageCtor(type, data, priority) ==
    [header |-> [DefaultHeader EXCEPT !.type = type, !.priority = priority,
                                      !.payload_size = U32(Len(data))],
     payload |-> data, metadata |-> {}]

Message_is_valid(m) ==
    /\ m.header.magic_number = MAGIC
    /\ m.header.payload_size = U32(Len(m.payload))

\* buffer_t buffer(header_size()): 26 bytes of fields, the rest stays zero
MessageHeader_serialize(h) ==
    LE32(h.magic_number) \o LE16(h.version) \o LE16(h.type % Half)
        \o LE16(h.priority % Half) \o LE32(h.sequence_id)
        \o LE32(h.timestamp) \o LE32(h.payload_size) \o LE32(h.checksum)
        \o <<0, 0, 0, 0, 0, 0>>

\* mutant: only the low half of the magic number is compared
MessageHeader_deserialize_halfmagic(data) ==
    IF Len(data) < header_size THEN None
    ELSE IF FromLE16(data, 0) # MAGIC[2] THEN None
    ELSE Some(
         [magic_number |-> FromLE32(data, 0),
          version |-> FromLE16(data, 4),
          type |-> FromLE16(data, 6),
          priority |-> FromLE16(data, 8),
          sequence_id |-> FromLE32(data, 10),
          timestamp |-> FromLE32(data, 14),
          payload_size |-> FromLE32(data, 18),
          checksum |-> FromLE32(data, 22)])

\* mutant: the sequence id is read two bytes early
MessageHeader_deserialize_misread(data) ==
    IF Len(data) < header_size THEN None
    ELSE IF FromLE32(data, 0) # MAGIC THEN None
    ELSE Some(
         [magic_number |-> FromLE32(data, 0),
          version |-> FromLE16(data, 4),
          type |-> FromLE16(data, 6),
          priority |-> FromLE16(data, 8),
          sequence_id |-> FromLE32(data, 8),
          timestamp |-> FromLE32(data, 14),
          payload_size |-> FromLE32(data, 18),
          checksum |-> FromLE32(data, 22)])

\* the header read from data, or None where the code returns false
MessageHeader_deserialize(data) ==
    IF Len(data) < header_size THEN None
    ELSE IF FromLE32(data, 0) # MAGIC THEN None
    ELSE Some(
         [magic_number |-> FromLE32(data, 0),
          version |-> FromLE16(data, 4),
          type |-> FromLE16(data, 6),
          priority |-> FromLE16(data, 8),
          sequence_id |-> FromLE32(data, 10),
          timestamp |-> FromLE32(data, 14),
          payload_size |-> FromLE32(data, 18),
          checksum |-> FromLE32(data, 22)])

(* ------------------------------------------------------------------ *)
(* MessageProtocol: the pass-through hooks, serialize, deserialize     *)
(* ------------------------------------------------------------------ *)
compress_data(data) == data

decompress_data(data) == data

encrypt_data(data) == data

decrypt_data(data) == data

\* mutant: a payload of exactly the maximum size is refused (>= for >)
serialize_strict(maxsize, version, compression, encryption, message, ts) ==
    IF Len(message.payload) >= maxsize THEN None
    ELSE LET compressed == IF compression THEN compress_data(message.payload)
                           ELSE message.payload
             processed_payload == IF encryption THEN encrypt_data(compressed)
                                  ELSE compressed
             hdr == [message.header EXCEPT
                        !.version = version,
                        !.timestamp = ts,
                        !.payload_size = U32(Len(processed_payload)),
                        !.checksum = calculate_checksum(processed_payload)]
         IN Some(MessageHeader_serialize(hdr) \o processed_payload)

\* serialize(message) of a protocol with the given settings at time ts;
\* None is std::nullopt
serialize(maxsize, version, compression, encryption, message, ts) ==
    IF Len(message.payload) > maxsize THEN None
    ELSE LET compressed == IF compression THEN compress_data(message.payload)
                           ELSE message.payload
             processed_payload == IF encryption THEN encrypt_data(compressed)
                                  ELSE compressed
             hdr == [message.header EXCEPT
                        !.version = version,
                        !.timestamp = ts,
                        !.payload_size = U32(Len(processed_payload)),
                        !.checksum = calculate_checksum(processed_payload)]
         IN Some(MessageHeader_serialize(hdr) \o processed_payload)

\* mutant: the checksum of the payload is not compared with the header's
deserialize_unchecked(compression, encryption, data) ==
    IF Len(data) < header_size THEN None
    ELSE LET read == MessageHeader_deserialize(Slice(data, 0, header_size))
             hdr == Val(read)
         IN IF read = None THEN None
            ELSE IF SizeLessU32(Len(data) - header_size, hdr.payload_size)
            THEN None
            ELSE LET n == hdr.payload_size[1] * Half + hdr.payload_size[2]
                 IN Some([header |-> hdr,
                          payload |-> Slice(data, header_size, header_size + n),
                          metadata |-> {}])

\* deserialize(data) of a protocol with the given settings; None is
\* std::nullopt.  A version above the protocol's own only logs a warning.
deserialize(compression, encryption, data) ==
    IF Len(data) < header_size THEN None
    ELSE LET read == MessageHeader_deserialize(Slice(data, 0, header_size))
             hdr == Val(read)
         IN IF read = None THEN None
            ELSE IF SizeLessU32(Len(data) - header_size, hdr.payload_size)
            THEN None
            ELSE LET n == hdr.payload_size[1] * Half + hdr.payload_size[2]
                     payload_data == Slice(data, header_size, header_size + n)
                 IN IF calculate_checksum(payload_data) # hdr.checksum
                    THEN None
                    ELSE LET decrypted == IF encryption
                                          THEN decrypt_data(payload_data)
                                          ELSE payload_data
                             processed_payload ==
                                 IF compression THEN decompress_data(decrypted)
                                 ELSE decrypted
                         IN Some([header |-> hdr,
                                  payload |-> processed_payload,
                                  metadata |-> {}])

(* ------------------------------------------------------------------ *)
(* State                                                               *)
(* ------------------------------------------------------------------ *)
VARIABLES
    \* MessageProtocol members
    sequence_counter_, protocol_version_, compression_enabled_,
    encryption_enabled_,
    \* what the caller of the protocol holds: the message it built, the
    \* result of serialize(msg), the buffer it is about to hand to
    \* deserialize, and the result of deserialize(wire)
    msg, sent, wire, decoded,
    \* the ids handed out since construction or the last reset: the first
    \* one, the one before the latest, the latest; and the number of
    \* id-issuing operations performed so far
    first_id, prev_id, last_id, calls,
    \* UdpClient members: the three atomic flags, the socket descriptor
    \* (-1 when there is none), whether SO_RCVTIMEO/SO_SNDTIMEO were applied
    \* to it, config_.enable_keep_alive, the statistics, the two thread
    \* handles with the position of the thread they own, the callbacks
    is_initialized_, is_receiving_, should_stop_, socket_, sock_timeout,
    enable_keep_alive, stats_, receive_thread_, keep_alive_thread_,
    message_callback_, error_callback_,
    \* the calling thread: where it is inside a blocking call, and the
    \* ErrorCode that the last operation returning one gave it
    main_pc, ret,
    \* the environment: sendto and recvfrom calls made so far, and whether
    \* std::terminate was called
    sendto_calls, recvfrom_calls, crashed,
    \* Logger members: the level, the two atomic flags of async mode, the
    \* record queue and its capacity, the holder of queue_mutex_ ("free"
    \* when nobody holds it), the worker's handle with the position of its
    \* thread, whether a notification of queue_condition_ is pending for
    \* the waiting worker, and the record the worker holds in its local
    \* variable
    level_, async_enabled_, logger_should_stop_, log_queue_, buffer_size_,
    queue_mutex_, async_thread_, notified, record,
    \* the destination of the logger: the records written so far
    written,
    \* the threads that call the logger: where each is inside a call and
    \* the record it has built
    lpc, lrec,
    \* records built so far, the ids accepted into the queue in the order
    \* of acceptance, and the ids found the queue full
    next_id, enqueued, dropped,
    \* ConfigManager members: the remembered path, the key map, the holder
    \* of config_mutex_ ("free" when nobody holds it), the registered
    \* change callback ("null" when there is none)
    config_file_, config_items_, config_mutex_, change_callback_,
    \* the threads that call the manager: where each is inside a call, and
    \* the arguments of the callback invocation it is making
    config_pc, config_call,
    \* what the last operation returning a bool and the last one returning
    \* an ErrorCode gave, the callback
    \* invocations made so far, the number of operations started, the
    \* value last set for each key as the caller passed it, and the files
    \* that exist with their content
    config_ret, config_code, invocations, config_ops, typed, files,
    \* the map that save_config last wrote to each path
    saved,
    \* the client another client was move-constructed or move-assigned
    \* from, when there is one: what the move left in its members,
    \* whether it still exists, and whether the running loops are its own
    source,
    \* the statistics at the grain of single reads and writes: the holder
    \* of stats_mutex_, what each thread is doing to the statistics, the
    \* copy get_statistics last returned, the totals of the updates that
    \* ran to their end since the last reset, and the number of operations
    stats_mutex_, stat_thread, snapshot, completed, stat_ops,
    \* the detached threads of send_async: where each is, the buffer and
    \* the callback it was given, what its send returned, how often its
    \* callback was invoked and with which code
    async_task,
    \* the last validate_message call: the buffer it was given and what
    \* it returned
    validated,
    \* worker threads of the logger that were started and that no handle
    \* owns
    unowned_workers,
    \* the file output of the logger: max_file_size_mb_, max_files_,
    \* whether file_stream_ is open, the files of the log directory with
    \* the lines each holds, the lines written and the rotations performed
    \* so far
    max_file_size_mb_, max_files_, file_stream_, log_dir, file_lines,
    rotations,
    \* the last pass of the receive loop and of the keep-alive loop through
    \* its body: the number of the pass, what receive or send returned and
    \* worked on, and the callback invocations the pass made
    rx, ka,
    \* the threads that call start_receive_async and stop_receive_async on
    \* one client at the same time: where each is inside its call, the
    \* loop threads created since the receiving flag was last cleared, and
    \* the loop threads whose handle was assigned over while they ran
    call_pc, session_threads, overwritten,
    \* the calls of start_receive_async that started the loop threads
    sessions,
    \* the thread that calls export_config: where it is, the key its
    \* iterator stands on, the keys and values it has read, and the key
    \* maps (as values) the manager held at the moments it looked
    export_pc, export_pos, export_seen, export_maps,
    \* the threads that are inside send while the calling thread closes
    \* the client: where each is and the buffer it sends; and the sendto
    \* calls made with the descriptor of a socket already released
    sender, released_io

pvars == <<sequence_counter_, protocol_version_, compression_enabled_,
           encryption_enabled_>>

hvars == <<msg, sent, wire, decoded>>

ivars == <<first_id, prev_id, last_id, calls>>

cflags == <<is_initialized_, is_receiving_, should_stop_>>

cthreads == <<receive_thread_, keep_alive_thread_>>

ccallbacks == <<message_callback_, error_callback_>>

cenv == <<sendto_calls, recvfrom_calls, crashed>>

mvars == <<source>>

svars == <<stats_mutex_, stat_thread, snapshot, completed, stat_ops>>

avars == <<async_task>>

rvars == <<max_file_size_mb_, max_files_, file_stream_, log_dir, file_lines,
           rotations>>

\* the components that only the operations of one later section write
kvars == <<rx, ka>>

qvars == <<call_pc, session_threads, overwritten>>

evars == <<export_pc, export_pos, export_seen, export_maps>>

tvars == <<sender, released_io>>

bvars == <<sessions>>

wvars == <<rvars, kvars, qvars, evars, tvars, bvars>>

xvars == <<validated, unowned_workers, wvars>>

cvars == <<cflags, socket_, sock_timeout, enable_keep_alive, stats_, cthreads,
           ccallbacks, main_pc, ret, cenv, mvars, svars, avars,
           xvars>>

protovars == <<pvars, hvars, ivars>>

lvars == <<level_, async_enabled_, logger_should_stop_, log_queue_,
           buffer_size_, queue_mutex_, async_thread_, notified, record,
           written, lpc, lrec, next_id, enqueued, dropped>>

gvars == <<config_file_, config_items_, config_mutex_, change_callback_,
           config_pc, config_call, config_ret, config_code, invocations,
           config_ops, typed, files, saved>>

\* the components an operation of the protocol or of the client leaves
\* alone
ovars == <<lvars, gvars, mvars, svars, avars, xvars>>

max_message_size_ == MAX_BUFFER_SIZE

(* ------------------------------------------------------------------ *)
(* Inputs                                                              *)
(* ------------------------------------------------------------------ *)
PayloadBytes == {0, 72, 255}

RECURSIVE SeqsUpTo(_, _)
SeqsUpTo(S, n) ==
    IF n = 0 THEN {<<>>}
    ELSE LET shorter == SeqsUpTo(S, n - 1)
         IN shorter \cup {Append(q, b) : q \in {r \in shorter : Len(r) = n - 1},
                                         b \in S}

Payloads == SeqsUpTo(PayloadBytes, MaxLen)

\* values of get_timestamp(): unix seconds, truncated to uint32
Timestamps == {U32(1762300800), U32(1762300801)}

\* protocol versions a caller sets
Versions == {1, 2}

\* ErrorCode values (common.h), SUCCESS = 0 .. PROTOCOL_ERROR = 9
ErrorCodes == 0..9

\* validate_message has not been called
NotValidated == [done |-> FALSE, data |-> <<>>, result |-> FALSE]

(* ------------------------------------------------------------------ *)
(* MessageProtocol operations                                          *)
(* ------------------------------------------------------------------ *)
\* MessageProtocol::MessageProtocol()
ProtocolInit ==
    /\ validated = NotValidated
    /\ sequence_counter_ = U32Zero
    /\ protocol_version_ = 1
    /\ compression_enabled_ = FALSE
    /\ encryption_enabled_ = FALSE
    /\ msg = NotYet /\ sent = NotYet /\ wire = NotYet /\ decoded = NotYet
    /\ first_id = None /\ prev_id = None /\ last_id = None /\ calls = 0

\* the caller now holds message m, not serialized yet
Hold(m) ==
    /\ msg' = Some(m)
    /\ sent' = NotYet /\ wire' = NotYet /\ decoded' = NotYet
    /\ UNCHANGED <<cvars, ovars>>

\* mutant: the id is returned before the increment (sequence_counter_++)
Issue_postincrement ==
    /\ calls < MaxCalls
    /\ sequence_counter_' = U32Inc(sequence_counter_)
    /\ first_id' = IF first_id = None THEN Some(sequence_counter_)
                    ELSE first_id
    /\ prev_id' = last_id
    /\ last_id' = Some(sequence_counter_)
    /\ calls' = calls + 1
    /\ UNCHANGED <<protocol_version_, compression_enabled_,
                   encryption_enabled_>>

\* return ++sequence_counter_, recorded in the id history
Issue ==
    /\ calls < MaxCalls
    /\ sequence_counter_' = U32Inc(sequence_counter_)
    /\ first_id' = IF first_id = None THEN Some(sequence_counter_')
                    ELSE first_id
    /\ prev_id' = last_id
    /\ last_id' = Some(sequence_counter_')
    /\ calls' = calls + 1
    /\ UNCHANGED <<protocol_version_, compression_enabled_,
                   encryption_enabled_>>

get_next_sequence_id ==
    /\ Issue
    /\ UNCHANGED <<hvars, cvars, ovars>>

\* 2^32 - 2
BurstLen == <<Half - 1, Half - 2>>

\* a caller's loop of BurstLen calls of get_next_sequence_id, taken when
\* the loop does not run past the largest id; the history keeps the last
\* two ids the loop was given
get_next_sequence_id_loop ==
    LET target == U32Add(sequence_counter_, BurstLen)
    IN /\ calls < MaxCalls
       /\ ~U32Less(target, sequence_counter_)
       /\ sequence_counter_' = target
       /\ first_id' = IF first_id = None
                       THEN Some(U32Inc(sequence_counter_))
                       ELSE first_id
       /\ prev_id' = Some(U32Dec(target))
       /\ last_id' = Some(target)
       /\ calls' = calls + 1
       /\ UNCHANGED <<ovars, cvars, protocol_version_, compression_enabled_,
                      encryption_enabled_, hvars>>

reset_sequence_id ==
    /\ sequence_counter_' = U32Zero
    /\ first_id' = None /\ prev_id' = None /\ last_id' = None
    /\ UNCHANGED <<ovars, cvars, protocol_version_, compression_enabled_,
                   encryption_enabled_, calls, hvars>>

\* a factory: a default message with the given type, priority and payload,
\* stamped with a fresh sequence id and the current time
Factory(type, priority, payload, meta, ts) ==
    /\ Issue
    /\ Hold([header |-> [DefaultHeader EXCEPT
                            !.type = type,
                            !.priority = priority,
                            !.sequence_id = sequence_counter_',
                            !.timestamp = ts,
                            !.payload_size = U32(Len(payload))],
             payload |-> payload,
             metadata |-> meta])

create_heartbeat(ts) == Factory(HEARTBEAT, LOW, <<72, 66>>, {}, ts)

create_data_message(payload, priority, ts) ==
    Factory(DATA, priority, payload, {}, ts)

\* buffer_t payload(data.begin(), data.end()), then create_data_message
create_string_message(data, priority, ts) ==
    create_data_message(data, priority, ts)

create_control_message(command, priority, ts) ==
    Factory(CONTROL, priority, command, {}, ts)

create_response_message(response_to_seq, response_data, ts) ==
    Factory(RESPONSE, HIGH, response_data,
            {<<"response_to", response_to_seq>>}, ts)

\* payload: the decimal error code, ':', the error text
create_error_message(error_code, error_message, ts) ==
    Factory(MESSAGE_ERROR, CRITICAL, <<48 + error_code, 58>> \o error_message,
            {}, ts)

\* Message(type, data, priority): no id is stamped
NewMessage(type, data, priority) ==
    /\ Hold(MessageCtor(type, data, priority))
    /\ UNCHANGED <<pvars, ivars>>

\* MessageBuilder: set_type, set_priority, set_payload, set_sequence_id, build
BuilderBuild(type, priority, payload, seq_id) ==
    /\ Hold([header |-> [DefaultHeader EXCEPT
                            !.type = type,
                            !.priority = priority,
                            !.payload_size = U32(Len(payload)),
                            !.sequence_id = seq_id],
             payload |-> payload,
             metadata |-> {}])
    /\ UNCHANGED <<pvars, ivars>>

set_compression_enabled(enable) ==
    /\ compression_enabled_' = enable
    /\ UNCHANGED <<ovars, cvars, sequence_counter_, protocol_version_, encryption_enabled_,
                   hvars, ivars>>

set_encryption_enabled(enable) ==
    /\ encryption_enabled_' = enable
    /\ UNCHANGED <<ovars, cvars, sequence_counter_, protocol_version_, compression_enabled_,
                   hvars, ivars>>

set_protocol_version(version) ==
    /\ protocol_version_' = version
    /\ UNCHANGED <<ovars, cvars, sequence_counter_, compression_enabled_,
                   encryption_enabled_, hvars, ivars>>

\* sent = serialize(msg); a frame becomes the buffer in hand
Serialize(ts) ==
    /\ msg # NotYet
    /\ sent = NotYet
    /\ sent' = serialize(max_message_size_, protocol_version_,
                         compression_enabled_, encryption_enabled_, Val(msg),
                         ts)
    /\ wire' = IF sent' = None THEN NotYet ELSE sent'
    /\ decoded' = NotYet
    /\ UNCHANGED <<ovars, cvars, msg, pvars, ivars>>

\* decoded = deserialize(wire)
\* mutant: the metadata of the message that was sent reaches the receiver
Deserialize_carrying ==
    /\ wire # NotYet
    /\ decoded = NotYet
    /\ decoded' =
          LET d == deserialize(compression_enabled_, encryption_enabled_,
                               Val(wire))
          IN IF d = None THEN None
             ELSE Some([Val(d) EXCEPT !.metadata = Val(msg).metadata])
    /\ UNCHANGED <<ovars, cvars, msg, sent, wire, pvars, ivars>>

Deserialize ==
    /\ wire # NotYet
    /\ decoded = NotYet
    /\ decoded' = deserialize(compression_enabled_, encryption_enabled_,
                            Val(wire))
    /\ UNCHANGED <<ovars, cvars, msg, sent, wire, pvars, ivars>>

vars == <<pvars, hvars, ivars, cvars, ovars>>

(* ------------------------------------------------------------------ *)
(* Logger (logger.cpp)                                                 *)
(*                                                                     *)
(* The threads of Callers call log, flush, set_level, enable_async and *)
(* disable_async on one Logger.  A call that takes queue_mutex_ is     *)
(* split where it waits for the mutex; what it does while holding the  *)
(* mutex is one step.  async_thread_ is "none" when the handle is not  *)
(* joinable, otherwise it shows where the worker is: "top" (about to   *)
(* test should_stop_), "lock" (about to take queue_mutex_), "block"    *)
(* (wait predicate found false, mutex held, about to block), "wait"    *)
(* (blocked in queue_condition_.wait, mutex released), "drain" (mutex  *)
(* held, about to test the queue), "write" (a record popped, mutex     *)
(* released, write_log not done yet), "relock" (about to re-take the   *)
(* mutex), "finished".                                                 *)
(* ------------------------------------------------------------------ *)
TRACE == 0
DEBUG == 1
INFO == 2
WARN == 3
LOG_ERROR == 4
FATAL == 5
OFF == 6
LogLevels == {TRACE, DEBUG, INFO, WARN, LOG_ERROR, FATAL, OFF}

Callers == {"t1", "t2"}

\* capacities passed to enable_async
BufferSizes == 1..MaxCap

\* LogRecord(level, message, name_, ...): the n-th log() call of the run
\* carries message n
LogRecord(n, level, t) == [id |-> n, level |-> level, thread |-> t]

\* the largest max_files a caller passes to set_file_output
MaxFiles == 3

\* the lines file_output writes in a run
MaxLines == 5

\* the log directory before set_file_output: neither the live file
\* (file_path_) nor a file named get_rotated_filename(i) exists
NoLogFiles == [live |-> None, rotated |-> [i \in 0..MaxFiles |-> None]]

\* Logger::Logger(name)
LoggerInit ==
    /\ level_ = INFO
    /\ async_enabled_ = FALSE /\ logger_should_stop_ = FALSE
    /\ log_queue_ = <<>> /\ buffer_size_ = 1000
    /\ queue_mutex_ = "free"
    /\ async_thread_ = "none" /\ notified = FALSE /\ record = None
    /\ written = <<>>
    /\ lpc = [t \in Callers |-> "idle"]
    /\ lrec = [t \in Callers |-> None]
    /\ next_id = 0 /\ enqueued = <<>> /\ dropped = {}
    /\ unowned_workers = 0
    /\ max_file_size_mb_ = 100 /\ max_files_ = 5
    /\ file_stream_ = FALSE
    /\ log_dir = NoLogFiles
    /\ file_lines = 0 /\ rotations = 0

\* mutant: a record is enabled only above the current level
is_enabled_above(level) == level > level_

is_enabled(level) == level >= level_

\* the wait predicate of async_worker
WorkerPredicate == log_queue_ # <<>> \/ logger_should_stop_

\* queue_condition_.notify_one() / notify_all(): reaches the worker only
\* if it is blocked in wait
Notify == notified \/ async_thread_ = "wait"

set_level(t, level) ==
    /\ lpc[t] = "idle"
    /\ level_' = level
    /\ UNCHANGED <<async_enabled_, logger_should_stop_, log_queue_,
                   buffer_size_, queue_mutex_, async_thread_, notified,
                   record, written, lpc, lrec, next_id, enqueued, dropped,
                   protovars, cvars, gvars>>

\* log(level, message): the level test, the record, and either write_log
\* at once or the wait for queue_mutex_
Log(t, level) ==
    /\ lpc[t] = "idle"
    /\ next_id < MaxLog
    /\ next_id' = next_id + 1
    /\ IF ~is_enabled(level)
       THEN UNCHANGED <<written, lpc, lrec>>
       ELSE IF async_enabled_
       THEN /\ lpc' = [lpc EXCEPT ![t] = "log_lock"]
            /\ lrec' = [lrec EXCEPT ![t] = Some(LogRecord(next_id', level, t))]
            /\ UNCHANGED written
       ELSE /\ written' = Append(written, LogRecord(next_id', level, t))
            /\ UNCHANGED <<lpc, lrec>>
    /\ UNCHANGED <<level_, async_enabled_, logger_should_stop_, log_queue_,
                   buffer_size_, queue_mutex_, async_thread_, notified,
                   record, enqueued, dropped, protovars, cvars, gvars>>

\* log(): under queue_mutex_, push and notify_one if there is room,
\* otherwise drop the record
LogEnqueue(t) ==
    /\ lpc[t] = "log_lock"
    /\ queue_mutex_ = "free"
    /\ IF Len(log_queue_) < buffer_size_
       THEN /\ log_queue_' = Append(log_queue_, Val(lrec[t]))
            /\ enqueued' = Append(enqueued, Val(lrec[t]).id)
            /\ notified' = Notify
            /\ UNCHANGED dropped
       ELSE /\ dropped' = dropped \cup {Val(lrec[t]).id}
            /\ UNCHANGED <<log_queue_, enqueued, notified>>
    /\ lpc' = [lpc EXCEPT ![t] = "idle"]
    /\ lrec' = [lrec EXCEPT ![t] = None]
    /\ UNCHANGED <<level_, async_enabled_, logger_should_stop_, buffer_size_,
                   queue_mutex_, async_thread_, record, written, next_id,
                   protovars, cvars, gvars>>

\* flush(): the test of async_enabled_
FlushBegin(t) ==
    /\ lpc[t] = "idle"
    /\ lpc' = [lpc EXCEPT ![t] = IF async_enabled_ THEN "flush_lock"
                                 ELSE "flush_tail"]
    /\ UNCHANGED <<level_, async_enabled_, logger_should_stop_, log_queue_,
                   buffer_size_, queue_mutex_, async_thread_, notified,
                   record, written, lrec, next_id, enqueued, dropped,
                   protovars, cvars, gvars>>

\* flush(): takes queue_mutex_; with the queue empty the block ends and
\* the mutex is released; otherwise the thread sleeps and re-tests the
\* queue while it keeps the mutex, which the worker needs to pop a record:
\* a thread in "flush_spin" has no further step
FlushLock(t) ==
    /\ lpc[t] = "flush_lock"
    /\ queue_mutex_ = "free"
    /\ IF log_queue_ = <<>>
       THEN /\ lpc' = [lpc EXCEPT ![t] = "flush_tail"]
            /\ UNCHANGED queue_mutex_
       ELSE /\ lpc' = [lpc EXCEPT ![t] = "flush_spin"]
            /\ queue_mutex_' = t
    /\ UNCHANGED <<level_, async_enabled_, logger_should_stop_, log_queue_,
                   buffer_size_, async_thread_, notified, record, written,
                   lrec, next_id, enqueued, dropped, protovars, cvars, gvars>>

\* flush(): the streams are flushed under log_mutex_ and flush returns
FlushTail(t) ==
    /\ lpc[t] = "flush_tail"
    /\ lpc' = [lpc EXCEPT ![t] = "idle"]
    /\ UNCHANGED <<level_, async_enabled_, logger_should_stop_, log_queue_,
                   buffer_size_, queue_mutex_, async_thread_, notified,
                   record, written, lrec, next_id, enqueued, dropped,
                   protovars, cvars, gvars>>

\* enable_async and disable_async are issued by the thread that sets the
\* logger up, one call at a time
Configuring == \E u \in Callers : lpc[u] \in {"disable_notify", "disable_join"}

\* enable_async(buffer_size)
enable_async(t, buffer_size) ==
    /\ lpc[t] = "idle" /\ ~Configuring
    /\ IF async_enabled_
       THEN UNCHANGED <<async_enabled_, logger_should_stop_, buffer_size_,
                        async_thread_>>
       ELSE /\ buffer_size_' = buffer_size
            /\ async_enabled_' = TRUE
            /\ logger_should_stop_' = FALSE
            /\ async_thread_' = "top"
    /\ UNCHANGED <<level_, log_queue_, queue_mutex_, notified, record,
                   written, lpc, lrec, next_id, enqueued, dropped,
                   protovars, cvars, gvars>>

\* disable_async(): the test of async_enabled_ and should_stop_ = true
DisableBegin(t) ==
    /\ lpc[t] = "idle" /\ ~Configuring
    /\ IF ~async_enabled_
       THEN UNCHANGED <<logger_should_stop_, lpc>>
       ELSE /\ logger_should_stop_' = TRUE
            /\ lpc' = [lpc EXCEPT ![t] = "disable_notify"]
    /\ UNCHANGED <<level_, async_enabled_, log_queue_, buffer_size_,
                   queue_mutex_, async_thread_, notified, record, written,
                   lrec, next_id, enqueued, dropped, protovars, cvars, gvars>>

\* disable_async(): queue_condition_.notify_all(), without queue_mutex_
DisableNotify(t) ==
    /\ lpc[t] = "disable_notify"
    /\ notified' = Notify
    /\ lpc' = [lpc EXCEPT ![t] = "disable_join"]
    /\ UNCHANGED <<level_, async_enabled_, logger_should_stop_, log_queue_,
                   buffer_size_, queue_mutex_, async_thread_, record,
                   written, lrec, next_id, enqueued, dropped, protovars,
                   cvars, gvars>>

\* disable_async(): async_thread_.join() and async_enabled_ = false
DisableJoin(t) ==
    /\ lpc[t] = "disable_join"
    /\ async_thread_ \in {"none", "finished"}
    /\ async_thread_' = "none"
    /\ async_enabled_' = FALSE
    /\ lpc' = [lpc EXCEPT ![t] = "idle"]
    /\ UNCHANGED <<level_, logger_should_stop_, log_queue_, buffer_size_,
                   queue_mutex_, notified, record, written, lrec, next_id,
                   enqueued, dropped, protovars, cvars, gvars>>

\* async_worker: while (!should_stop_)
WorkerCheck ==
    /\ async_thread_ = "top"
    /\ async_thread_' = IF logger_should_stop_ THEN "finished" ELSE "lock"
    /\ UNCHANGED <<level_, async_enabled_, logger_should_stop_, log_queue_,
                   buffer_size_, queue_mutex_, notified, record, written,
                   lpc, lrec, next_id, enqueued, dropped, protovars, cvars, gvars>>

\* async_worker: unique_lock lock(queue_mutex_) and the first evaluation
\* of the wait predicate
WorkerLock ==
    /\ async_thread_ = "lock"
    /\ queue_mutex_ = "free"
    /\ queue_mutex_' = "worker"
    /\ async_thread_' = IF WorkerPredicate THEN "drain" ELSE "block"
    /\ UNCHANGED <<level_, async_enabled_, logger_should_stop_, log_queue_,
                   buffer_size_, notified, record, written, lpc, lrec,
                   next_id, enqueued, dropped, protovars, cvars, gvars>>

\* async_worker: the wait releases the mutex and blocks; a notification
\* sent before this moment is not seen
WorkerBlock ==
    /\ async_thread_ = "block"
    /\ queue_mutex_' = "free"
    /\ notified' = FALSE
    /\ async_thread_' = "wait"
    /\ UNCHANGED <<level_, async_enabled_, logger_should_stop_, log_queue_,
                   buffer_size_, record, written, lpc, lrec, next_id,
                   enqueued, dropped, protovars, cvars, gvars>>

\* async_worker: the wait wakes up (notified or spuriously), re-takes the
\* mutex and evaluates the predicate again
WorkerWake ==
    /\ async_thread_ = "wait"
    /\ queue_mutex_ = "free"
    /\ queue_mutex_' = "worker"
    /\ notified' = FALSE
    /\ async_thread_' = IF WorkerPredicate THEN "drain" ELSE "block"
    /\ UNCHANGED <<level_, async_enabled_, logger_should_stop_, log_queue_,
                   buffer_size_, record, written, lpc, lrec, next_id,
                   enqueued, dropped, protovars, cvars, gvars>>

\* mutant: the worker takes the newest record of the queue
WorkerDrain_newest ==
    /\ async_thread_ = "drain"
    /\ queue_mutex_' = "free"
    /\ IF log_queue_ = <<>>
       THEN /\ async_thread_' = "top"
            /\ UNCHANGED <<log_queue_, record>>
       ELSE /\ record' = Some(log_queue_[Len(log_queue_)])
            /\ log_queue_' = SubSeq(log_queue_, 1, Len(log_queue_) - 1)
            /\ async_thread_' = "write"
    /\ UNCHANGED <<level_, async_enabled_, logger_should_stop_, buffer_size_,
                   notified, written, lpc, lrec, next_id, enqueued, dropped,
                   protovars, cvars, gvars>>

\* async_worker: while (!log_queue_.empty()): front, pop, unlock; with
\* the queue empty the lock goes out of scope
WorkerDrain ==
    /\ async_thread_ = "drain"
    /\ queue_mutex_' = "free"
    /\ IF log_queue_ = <<>>
       THEN /\ async_thread_' = "top"
            /\ UNCHANGED <<log_queue_, record>>
       ELSE /\ record' = Some(Head(log_queue_))
            /\ log_queue_' = Tail(log_queue_)
            /\ async_thread_' = "write"
    /\ UNCHANGED <<level_, async_enabled_, logger_should_stop_, buffer_size_,
                   notified, written, lpc, lrec, next_id, enqueued, dropped,
                   protovars, cvars, gvars>>

\* async_worker: write_log(record)
WorkerWrite ==
    /\ async_thread_ = "write"
    /\ written' = Append(written, Val(record))
    /\ record' = None
    /\ async_thread_' = "relock"
    /\ UNCHANGED <<level_, async_enabled_, logger_should_stop_, log_queue_,
                   buffer_size_, queue_mutex_, notified, lpc, lrec, next_id,
                   enqueued, dropped, protovars, cvars, gvars>>

\* async_worker: lock.lock()
WorkerRelock ==
    /\ async_thread_ = "relock"
    /\ queue_mutex_ = "free"
    /\ queue_mutex_' = "worker"
    /\ async_thread_' = "drain"
    /\ UNCHANGED <<level_, async_enabled_, logger_should_stop_, log_queue_,
                   buffer_size_, notified, record, written, lpc, lrec,
                   next_id, enqueued, dropped, protovars, cvars, gvars>>

\* one thread sets the level and logs at every level
DoSetLevel == \E l \in LogLevels : set_level("t1", l)

\* the levels the threads log at while the queue and the worker are
\* explored: one below and one above the level of a new logger
AsyncLevels == {DEBUG, LOG_ERROR}

DoLog == \E t \in Callers, l \in AsyncLevels : Log(t, l)

DoLogAny == \E l \in LogLevels : Log("t1", l)

DoLogEnqueue == \E t \in Callers : LogEnqueue(t)

DoFlushBegin == \E t \in Callers : FlushBegin(t)

DoFlushLock == \E t \in Callers : FlushLock(t)

DoFlushTail == \E t \in Callers : FlushTail(t)

DoEnableAsync == \E t \in Callers, n \in BufferSizes : enable_async(t, n)

DoDisableBegin == \E t \in Callers : DisableBegin(t)

DoDisableNotify == \E t \in Callers : DisableNotify(t)

DoDisableJoin == \E t \in Callers : DisableJoin(t)

NextLogger ==
    \/ DoLog
    \/ DoLogEnqueue
    \/ DoFlushBegin
    \/ DoFlushLock
    \/ DoFlushTail
    \/ DoEnableAsync
    \/ DoDisableBegin
    \/ DoDisableNotify
    \/ DoDisableJoin
    \/ WorkerCheck
    \/ WorkerLock
    \/ WorkerBlock
    \/ WorkerWake
    \/ WorkerDrain
    \/ WorkerWrite
    \/ WorkerRelock

(* ------------------------------------------------------------------ *)
(* ConfigManager (config_manager.cpp)                                  *)
(*                                                                     *)
(* A string_t is the sequence of its characters.  std::map is a        *)
(* function from the keys present to their items.                      *)
(* ------------------------------------------------------------------ *)
MaxInt == 2147483647
MinInt == -MaxInt - 1

Digits == <<"0", "1", "2", "3", "4", "5", "6", "7", "8", "9">>
UpperCase == <<"A", "B", "C", "D", "E", "F", "G", "H", "I", "J", "K", "L", "M", "N", "O", "P", "Q", "R", "S", "T", "U", "V", "W", "X", "Y", "Z">>
LowerCase == <<"a", "b", "c", "d", "e", "f", "g", "h", "i", "j", "k", "l", "m", "n", "o", "p", "q", "r", "s", "t", "u", "v", "w", "x", "y", "z">>

IndexIn(c, chars) == CHOOSE i \in 1..Len(chars) : chars[i] = c

IsDigit(c) == \E i \in 1..Len(Digits) : Digits[i] = c

DigitVal(c) == IndexIn(c, Digits) - 1

\* ::tolower on one character
ToLowerChar(c) ==
    IF \E i \in 1..Len(UpperCase) : UpperCase[i] = c
    THEN LowerCase[IndexIn(c, UpperCase)] ELSE c

\* std::transform(..., ::tolower)
ToLower(s) == [i \in 1..Len(s) |-> ToLowerChar(s[i])]

\* the characters std::isspace accepts, skipped by std::stoi
IsSpace(c) == c \in {" ", "\t", "\n", "\r"}

\* the characters trimmed with find_first_not_of(" \t")
IsBlank(c) == c \in {" ", "\t"}

RECURSIVE NatToString(_)
NatToString(n) ==
    IF n < 10 THEN <<Digits[n + 1]>>
    ELSE NatToString(n \div 10) \o <<Digits[(n % 10) + 1]>>

\* std::to_string(int)
to_string(n) ==
    IF n = MinInt THEN <<"-", "2", "1", "4", "7", "4", "8", "3", "6", "4", "8">>
    ELSE IF n < 0 THEN <<"-">> \o NatToString(-n)
    ELSE NatToString(n)

\* the digits of s from position i on, accumulated into acc: the value,
\* or "over" once it exceeds MaxInt + 1, "min" when it is MaxInt + 1
RECURSIVE Accumulate(_, _, _, _)
Accumulate(s, i, acc, state) ==
    IF i > Len(s) \/ ~IsDigit(s[i]) THEN [state |-> state, value |-> acc]
    ELSE LET d == DigitVal(s[i])
         IN IF state # "ok" THEN Accumulate(s, i + 1, acc, "over")
            ELSE IF acc < MaxInt \div 10 \/ (acc = MaxInt \div 10 /\ d <= 7)
            THEN Accumulate(s, i + 1, acc * 10 + d, "ok")
            ELSE IF acc = MaxInt \div 10 /\ d = 8
            THEN Accumulate(s, i + 1, acc, "min")
            ELSE Accumulate(s, i + 1, acc, "over")

RECURSIVE SkipSpace(_, _)
SkipSpace(s, i) ==
    IF i <= Len(s) /\ IsSpace(s[i]) THEN SkipSpace(s, i + 1) ELSE i

\* std::stoi(value): None when it throws (no digits: invalid_argument;
\* outside int: out_of_range), otherwise the number the leading digits
\* give; what follows the digits is ignored
stoi(s) ==
    LET i == SkipSpace(s, 1)
        negative == i <= Len(s) /\ s[i] = "-"
        j == IF i <= Len(s) /\ s[i] \in {"+", "-"} THEN i + 1 ELSE i
        r == Accumulate(s, j, 0, "ok")
    IN IF j > Len(s) \/ ~IsDigit(s[j]) THEN None
       ELSE IF r.state = "over" THEN None
       ELSE IF r.state = "min"
       THEN (IF negative THEN Some(MinInt) ELSE None)
       ELSE Some(IF negative THEN -r.value ELSE r.value)

STRING_T == "STRING"
INTEGER == "INTEGER"
BOOLEAN_T == "BOOLEAN"
DOUBLE == "DOUBLE"
LIST == "LIST"
ConfigTypes == {STRING_T, INTEGER, BOOLEAN_T, DOUBLE, LIST}

\* ConfigItem(t, v, desc, req)
ConfigItem(t, v, desc, req) ==
    [type |-> t, value |-> v, description |-> desc, required |-> req]

\* ConfigItem(): the strings are empty and required is false; type has
\* no initializer, its value is whatever the storage held
DefaultItems == {ConfigItem(t, <<>>, <<>>, FALSE) : t \in ConfigTypes}

as_string(item) == item.value

\* mutant: a text that is not a number gives -1
as_int_minus(item) ==
    IF IsSome(stoi(item.value)) THEN Val(stoi(item.value)) ELSE -1

as_int(item) ==
    IF IsSome(stoi(item.value)) THEN Val(stoi(item.value)) ELSE 0

as_bool(item) ==
    ToLower(item.value) \in {<<"t", "r", "u", "e">>, <<"1">>, <<"y", "e", "s">>, <<"o", "n">>}

\* m with key k bound to v (config_items_[k] = v)
Put(m, k, v) == [x \in DOMAIN m \cup {k} |-> IF x = k THEN v ELSE m[x]]

\* m without key k (config_items_.erase(k))
Erase(m, k) == [x \in DOMAIN m \ {k} |-> m[x]]

EmptyMap == [x \in {} |-> <<>>]

\* std::to_string(double) prints six decimals; a double is kept here as
\* its number of millionths, for values of at most six decimals
double_to_string(micro) ==
    LET frac == NatToString(micro % 1000000)
        pad == [i \in 1..(6 - Len(frac)) |-> "0"]
    IN NatToString(micro \div 1000000) \o <<".">> \o pad \o frac

DEFAULT_HOST == <<"1", "2", "7", ".", "0", ".", "0", ".", "1">>
DEFAULT_PORT == 8888
DEFAULT_TIMEOUT_MS == 5000

\* the map set_defaults() leaves in a new manager
DefaultConfig ==
    LET str(v, d) == ConfigItem(STRING_T, v, d, FALSE)
        int(n, d) == ConfigItem(INTEGER, to_string(n), d, FALSE)
        bool(b, d) == ConfigItem(BOOLEAN_T,
                                 IF b THEN <<"t", "r", "u", "e">> ELSE <<"f", "a", "l", "s", "e">>, d, FALSE)
    IN (<<"s", "e", "r", "v", "e", "r", ".", "h", "o", "s", "t">> :> str(DEFAULT_HOST, <<"U", "D", "P", " ", "s", "e", "r", "v", "e", "r", " ", "h", "o", "s", "t", " ", "a", "d", "d", "r", "e", "s", "s">>))
       @@ (<<"s", "e", "r", "v", "e", "r", ".", "p", "o", "r", "t">> :> int(DEFAULT_PORT, <<"U", "D", "P", " ", "s", "e", "r", "v", "e", "r", " ", "p", "o", "r", "t">>))
       @@ (<<"c", "l", "i", "e", "n", "t", ".", "t", "i", "m", "e", "o", "u", "t", "_", "m", "s">> :>
             int(DEFAULT_TIMEOUT_MS, <<"C", "l", "i", "e", "n", "t", " ", "t", "i", "m", "e", "o", "u", "t", " ", "i", "n", " ", "m", "i", "l", "l", "i", "s", "e", "c", "o", "n", "d", "s">>))
       @@ (<<"c", "l", "i", "e", "n", "t", ".", "m", "a", "x", "_", "r", "e", "t", "r", "i", "e", "s">> :>
             int(3, <<"M", "a", "x", "i", "m", "u", "m", " ", "n", "u", "m", "b", "e", "r", " ", "o", "f", " ", "r", "e", "t", "r", "i", "e", "s">>))
       @@ (<<"c", "l", "i", "e", "n", "t", ".", "e", "n", "a", "b", "l", "e", "_", "k", "e", "e", "p", "_", "a", "l", "i", "v", "e">> :>
             bool(TRUE, <<"E", "n", "a", "b", "l", "e", " ", "k", "e", "e", "p", "-", "a", "l", "i", "v", "e", " ", "h", "e", "a", "r", "t", "b", "e", "a", "t">>))
       @@ (<<"c", "l", "i", "e", "n", "t", ".", "k", "e", "e", "p", "_", "a", "l", "i", "v", "e", "_", "i", "n", "t", "e", "r", "v", "a", "l", "_", "m", "s">> :>
             int(30000, <<"K", "e", "e", "p", "-", "a", "l", "i", "v", "e", " ", "i", "n", "t", "e", "r", "v", "a", "l", " ", "i", "n", " ", "m", "i", "l", "l", "i", "s", "e", "c", "o", "n", "d", "s">>))
       @@ (<<"l", "o", "g", ".", "l", "e", "v", "e", "l">> :>
             str(<<"I", "N", "F", "O">>,
                 <<"L", "o", "g", " ", "l", "e", "v", "e", "l", " ", "(", "T", "R", "A", "C", "E", ",", " ", "D", "E", "B", "U", "G", ",", " ", "I", "N", "F", "O", ",", " ", "W", "A", "R", "N", ",", " ", "E", "R", "R", "O", "R", ",", " ", "F", "A", "T", "A", "L", ")">>))
       @@ (<<"l", "o", "g", ".", "f", "i", "l", "e">> :> str(<<"u", "d", "p", "2", "d", "o", "c", "k", "e", "r", ".", "l", "o", "g">>, <<"L", "o", "g", " ", "f", "i", "l", "e", " ", "p", "a", "t", "h">>))
       @@ (<<"l", "o", "g", ".", "c", "o", "n", "s", "o", "l", "e">> :> bool(TRUE, <<"E", "n", "a", "b", "l", "e", " ", "c", "o", "n", "s", "o", "l", "e", " ", "l", "o", "g", "g", "i", "n", "g">>))

\* what the callers of set_defaults() passed, key by key
DefaultTyped ==
    (<<"s", "e", "r", "v", "e", "r", ".", "h", "o", "s", "t">> :> <<"string", DEFAULT_HOST>>)
    @@ (<<"s", "e", "r", "v", "e", "r", ".", "p", "o", "r", "t">> :> <<"int", DEFAULT_PORT>>)
    @@ (<<"c", "l", "i", "e", "n", "t", ".", "t", "i", "m", "e", "o", "u", "t", "_", "m", "s">> :> <<"int", DEFAULT_TIMEOUT_MS>>)
    @@ (<<"c", "l", "i", "e", "n", "t", ".", "m", "a", "x", "_", "r", "e", "t", "r", "i", "e", "s">> :> <<"int", 3>>)
    @@ (<<"c", "l", "i", "e", "n", "t", ".", "e", "n", "a", "b", "l", "e", "_", "k", "e", "e", "p", "_", "a", "l", "i", "v", "e">> :> <<"bool", TRUE>>)
    @@ (<<"c", "l", "i", "e", "n", "t", ".", "k", "e", "e", "p", "_", "a", "l", "i", "v", "e", "_", "i", "n", "t", "e", "r", "v", "a", "l", "_", "m", "s">> :> <<"int", 30000>>)
    @@ (<<"l", "o", "g", ".", "l", "e", "v", "e", "l">> :> <<"string", <<"I", "N", "F", "O">>>>)
    @@ (<<"l", "o", "g", ".", "f", "i", "l", "e">> :> <<"string", <<"u", "d", "p", "2", "d", "o", "c", "k", "e", "r", ".", "l", "o", "g">>>>)
    @@ (<<"l", "o", "g", ".", "c", "o", "n", "s", "o", "l", "e">> :> <<"bool", TRUE>>)

\* the keys the callers use: one that set_defaults() installs, one that
\* it does not
ConfigKeys == {<<"s", "e", "r", "v", "e", "r", ".", "p", "o", "r", "t">>, <<"t", "e", "s", "t", ".", "k", "e", "y">>}

StringValues == {<<"a", "b", "c">>, <<"1", "2", "x">>}
IntValues == {-7, MaxInt}
DoubleValues == {3141590}
ListItems == {ConfigItem(LIST, <<"a", ",", "b">>, <<"h", "o", "s", "t", "s">>, TRUE)}

\* the callbacks a caller registers: one that returns, one that throws,
\* one that calls get, has, get_string or set on the same manager
Callbacks == {"on_change", "on_change_throws", "on_change_reenters"}

NoCall == [cb |-> "null", key |-> <<>>,
           old |-> ConfigItem(STRING_T, <<>>, <<>>, FALSE),
           new |-> ConfigItem(STRING_T, <<>>, <<>>, FALSE)]

\* a caller is between two operations of the manager and may start one
ConfigIdle(t) ==
    /\ config_pc[t] = "idle"
    /\ config_ops < MaxCfg

\* mutant: the callback is entered only when the key was present
set_present(t, key, item) ==
    /\ ConfigIdle(t)
    /\ config_mutex_ = "free"
    /\ config_ops' = config_ops + 1
    /\ config_items_' = Put(config_items_, key, item)
    /\ IF change_callback_ # "null" /\ key \in DOMAIN config_items_
       THEN /\ config_call' =
                     [config_call EXCEPT ![t] =
                         [cb |-> change_callback_, key |-> key,
                          old |-> config_items_[key], new |-> item]]
            /\ invocations' = invocations + 1
            /\ config_mutex_' = t
            /\ config_pc' = [config_pc EXCEPT ![t] = "callback"]
       ELSE UNCHANGED <<config_call, invocations, config_mutex_, config_pc>>
    /\ UNCHANGED <<config_file_, change_callback_, config_ret, config_code,
                   files, saved>>
    /\ UNCHANGED <<protovars, cvars, lvars>>

\* ConfigManager::set under lock_guard(config_mutex_): the old item is
\* the stored one, or a default-constructed ConfigItem (whose type is
\* left uninitialized) when the key is absent; the item is stored; the
\* callback, when one is registered, is entered with the mutex held
set(t, key, item) ==
    /\ ConfigIdle(t)
    /\ config_mutex_ = "free"
    /\ config_ops' = config_ops + 1
    /\ config_items_' = Put(config_items_, key, item)
    /\ IF change_callback_ # "null"
       THEN /\ \E old_value \in (IF key \in DOMAIN config_items_
                                 THEN {config_items_[key]}
                                 ELSE DefaultItems) :
                 config_call' =
                     [config_call EXCEPT ![t] =
                         [cb |-> change_callback_, key |-> key,
                          old |-> old_value, new |-> item]]
            /\ invocations' = invocations + 1
            /\ config_mutex_' = t
            /\ config_pc' = [config_pc EXCEPT ![t] = "callback"]
       ELSE UNCHANGED <<config_call, invocations, config_mutex_, config_pc>>
    /\ UNCHANGED <<config_file_, change_callback_, config_ret, config_code,
                   files, saved>>
    /\ UNCHANGED <<protovars, cvars, lvars>>

set_item(t, key, item) ==
    /\ set(t, key, item)
    /\ typed' = Put(typed, key, <<"item", item>>)

set_string(t, key, value) ==
    /\ set(t, key, ConfigItem(STRING_T, value, <<>>, FALSE))
    /\ typed' = Put(typed, key, <<"string", value>>)

set_int(t, key, value) ==
    /\ set(t, key, ConfigItem(INTEGER, to_string(value), <<>>, FALSE))
    /\ typed' = Put(typed, key, <<"int", value>>)

set_bool(t, key, value) ==
    /\ set(t, key,
           ConfigItem(BOOLEAN_T,
                      IF value THEN <<"t", "r", "u", "e">>
                      ELSE <<"f", "a", "l", "s", "e">>, <<>>, FALSE))
    /\ typed' = Put(typed, key, <<"bool", value>>)

set_double(t, key, value) ==
    /\ set(t, key, ConfigItem(DOUBLE, double_to_string(value), <<>>, FALSE))
    /\ typed' = Put(typed, key, <<"double", value>>)

\* the statements of set() after the callback returned: the lock_guard
\* releases the mutex and set returns
CallbackReturn(t) ==
    /\ config_pc[t] = "callback"
    /\ config_call[t].cb = "on_change"
    /\ config_mutex_' = "free"
    /\ config_pc' = [config_pc EXCEPT ![t] = "idle"]
    /\ UNCHANGED <<config_file_, config_items_, change_callback_,
                   config_call, config_ret, config_code, invocations, config_ops, typed,
                   files, saved>>
    /\ UNCHANGED <<protovars, cvars, lvars>>

\* the callback throws: catch (...) in set() ignores the exception
CallbackThrow(t) ==
    /\ config_pc[t] = "callback"
    /\ config_call[t].cb = "on_change_throws"
    /\ config_mutex_' = "free"
    /\ config_pc' = [config_pc EXCEPT ![t] = "idle"]
    /\ UNCHANGED <<config_file_, config_items_, change_callback_,
                   config_call, config_ret, config_code, invocations, config_ops, typed,
                   files, saved>>
    /\ UNCHANGED <<protovars, cvars, lvars>>

\* the callback calls get, has, get_string or set on the same manager:
\* each locks config_mutex_, a std::mutex its own thread already holds.
\* The behaviour is undefined: the thread blocks for ever in lock(), or
\* lock() throws std::system_error, which catch (...) in set() ignores
CallbackReenter(t) ==
    /\ config_pc[t] = "callback"
    /\ config_call[t].cb = "on_change_reenters"
    /\ \/ /\ config_pc' = [config_pc EXCEPT ![t] = "relock"]
          /\ UNCHANGED config_mutex_
       \/ /\ config_pc' = [config_pc EXCEPT ![t] = "idle"]
          /\ config_mutex_' = "free"
    /\ UNCHANGED <<config_file_, config_items_, change_callback_,
                   config_call, config_ret, config_code, invocations, config_ops, typed,
                   files, saved>>
    /\ UNCHANGED <<protovars, cvars, lvars>>

get(key) ==
    IF key \in DOMAIN config_items_ THEN Some(config_items_[key]) ELSE None

get_string(key, default_value) ==
    IF IsSome(get(key)) THEN as_string(Val(get(key))) ELSE default_value

get_int(key, default_value) ==
    IF IsSome(get(key)) THEN as_int(Val(get(key))) ELSE default_value

get_bool(key, default_value) ==
    IF IsSome(get(key)) THEN as_bool(Val(get(key))) ELSE default_value

has(key) == key \in DOMAIN config_items_

\* the keys of the map; the vector lists them in the order of the map
get_all_keys == DOMAIN config_items_

size == Cardinality(DOMAIN config_items_)

\* config_items_.erase(key) > 0
remove(t, key) ==
    /\ ConfigIdle(t)
    /\ config_mutex_ = "free"
    /\ config_ops' = config_ops + 1
    /\ config_items_' = Erase(config_items_, key)
    /\ config_ret' = (key \in DOMAIN config_items_)
    /\ typed' = Erase(typed, key)
    /\ UNCHANGED <<config_file_, config_mutex_, change_callback_, config_pc,
                   config_call, config_code, invocations, files, saved>>
    /\ UNCHANGED <<protovars, cvars, lvars>>

clear(t) ==
    /\ ConfigIdle(t)
    /\ config_mutex_ = "free"
    /\ config_ops' = config_ops + 1
    /\ config_items_' = EmptyMap
    /\ typed' = EmptyMap
    /\ UNCHANGED <<config_file_, config_mutex_, change_callback_, config_pc,
                   config_call, config_ret, config_code, invocations, files, saved>>
    /\ UNCHANGED <<protovars, cvars, lvars>>

\* change_callback_ = callback under lock_guard(config_mutex_)
register_change_callback(t, callback) ==
    /\ ConfigIdle(t)
    /\ config_mutex_ = "free"
    /\ config_ops' = config_ops + 1
    /\ change_callback_' = callback
    /\ UNCHANGED <<config_file_, config_items_, config_mutex_, config_pc,
                   config_call, config_ret, config_code, invocations, typed, files, saved>>
    /\ UNCHANGED <<protovars, cvars, lvars>>

unregister_change_callback(t) ==
    /\ ConfigIdle(t)
    /\ config_mutex_ = "free"
    /\ config_ops' = config_ops + 1
    /\ change_callback_' = "null"
    /\ UNCHANGED <<config_file_, config_items_, config_mutex_, config_pc,
                   config_call, config_ret, config_code, invocations, typed, files, saved>>
    /\ UNCHANGED <<protovars, cvars, lvars>>

\* position of the first c in s, 0 when there is none (string::find)
Find(s, c) ==
    LET hits == {i \in 1..Len(s) : s[i] = c}
    IN IF hits = {} THEN 0 ELSE CHOOSE i \in hits : \A j \in hits : i <= j

\* position of the last c in s, 0 when there is none (find_last_of)
FindLast(s, c) ==
    LET hits == {i \in 1..Len(s) : s[i] = c}
    IN IF hits = {} THEN 0 ELSE CHOOSE i \in hits : \A j \in hits : i >= j

\* the lines std::getline reads from a stream over s
RECURSIVE Lines(_)
Lines(s) ==
    IF s = <<>> THEN <<>>
    ELSE LET nl == Find(s, "\n")
         IN IF nl = 0 THEN <<s>>
            ELSE <<SubSeq(s, 1, nl - 1)>> \o Lines(SubSeq(s, nl + 1, Len(s)))

\* erase(0, find_first_not_of(" \t"))
RECURSIVE TrimLeft(_)
TrimLeft(s) ==
    IF s = <<>> \/ ~IsBlank(Head(s)) THEN s ELSE TrimLeft(Tail(s))

\* erase(find_last_not_of(" \t") + 1)
RECURSIVE TrimRight(_)
TrimRight(s) ==
    IF s = <<>> \/ ~IsBlank(s[Len(s)]) THEN s
    ELSE TrimRight(SubSeq(s, 1, Len(s) - 1))

Trim(s) == TrimRight(TrimLeft(s))

\* std::remove_if over the characters parse_json drops from a line
StripJson(s) == SelectSeq(s, LAMBDA c : c \notin {"{", "}", "\"", ",", " ", "\t"})

RECURSIVE ParseJsonLines(_, _)
ParseJsonLines(lines, result) ==
    IF lines = <<>> THEN result
    ELSE LET line == StripJson(Head(lines))
             colon_pos == Find(line, ":")
         IN IF line = <<>> \/ colon_pos = 0
            THEN ParseJsonLines(Tail(lines), result)
            ELSE ParseJsonLines(
                     Tail(lines),
                     Put(result, SubSeq(line, 1, colon_pos - 1),
                         ConfigItem(STRING_T,
                                    SubSeq(line, colon_pos + 1, Len(line)),
                                    <<"F", "r", "o", "m", " ", "J", "S", "O", "N", " ", "f", "i", "l", "e">>, FALSE)))

\* parse_json has no path that returns nullopt
parse_json(json_str) == Some(ParseJsonLines(Lines(json_str), EmptyMap))

RECURSIVE ParseIniLines(_, _, _)
ParseIniLines(lines, current_section, result) ==
    IF lines = <<>> THEN result
    ELSE LET line == Trim(Head(lines))
             equal_pos == Find(line, "=")
             key == Trim(SubSeq(line, 1, equal_pos - 1))
             value == Trim(SubSeq(line, equal_pos + 1, Len(line)))
         IN IF line = <<>> \/ line[1] \in {"#", ";"}
            THEN ParseIniLines(Tail(lines), current_section, result)
            ELSE IF line[1] = "[" /\ line[Len(line)] = "]"
            THEN ParseIniLines(Tail(lines), SubSeq(line, 2, Len(line) - 1),
                               result)
            ELSE IF equal_pos = 0
            THEN ParseIniLines(Tail(lines), current_section, result)
            ELSE ParseIniLines(
                     Tail(lines), current_section,
                     Put(result,
                         IF current_section # <<>>
                         THEN current_section \o <<".">> \o key ELSE key,
                         ConfigItem(STRING_T, value, <<"F", "r", "o", "m", " ", "I", "N", "I", " ", "f", "i", "l", "e">>,
                                    FALSE)))

\* parse_ini has no path that returns nullopt
parse_ini(ini_str) == Some(ParseIniLines(Lines(ini_str), <<>>, EmptyMap))

get_file_extension(file_path) ==
    LET dot_pos == FindLast(file_path, ".")
    IN IF dot_pos # 0
       THEN ToLower(SubSeq(file_path, dot_pos + 1, Len(file_path)))
       ELSE <<>>

\* the value each key of a parsed map stands for
TypedOf(items) == [k \in DOMAIN items |-> <<"string", items[k].value>>]

\* for (pair : parsed) config_items_[pair.first] = pair.second
Merge(m, parsed) ==
    [k \in DOMAIN m \cup DOMAIN parsed |->
        IF k \in DOMAIN parsed THEN parsed[k] ELSE m[k]]

JSON_FORMAT == <<"j", "s", "o", "n">>
INI_FORMAT == <<"i", "n", "i">>

\* texts handed to import_config: an object of one member and an object
\* cut off before its colon and its closing brace; a section with one
\* assignment and a section header left open over a line with no '='
JsonText == <<"{", "\n", " ", " ", "\"", "t", "e", "s", "t", ".", "k", "e", "y", "\"", ":", " ", "\"", "v", "\"", "\n", "}", "\n">>
JsonBroken == <<"{", "\"", "t", "e", "s", "t", ".", "k", "e", "y", "\"", " ", "\"", "v", "\"">>
IniText == <<"[", "t", "e", "s", "t", "]", "\n", "k", "e", "y", " ", "=", " ", "v", "\n">>
IniBroken == <<"[", "t", "e", "s", "t", "\n", "k", "e", "y", " ", "v", "\n">>

ImportTexts ==
    {<<JsonText, JSON_FORMAT>>, <<JsonBroken, JSON_FORMAT>>,
     <<IniText, INI_FORMAT>>, <<IniBroken, INI_FORMAT>>}

\* the texts among them that are not of the format they are given as
Malformed == {<<JsonBroken, JSON_FORMAT>>, <<IniBroken, INI_FORMAT>>}

\* mutant: import_config merges the parsed keys into the map as
\* load_config does
import_config_merging(t, config_str, format) ==
    LET parsed == IF format = JSON_FORMAT THEN parse_json(config_str)
                  ELSE parse_ini(config_str)
    IN /\ ConfigIdle(t)
       /\ config_mutex_ = "free"
       /\ config_ops' = config_ops + 1
       /\ IF IsSome(parsed)
          THEN /\ config_items_' = Merge(config_items_, Val(parsed))
               /\ typed' = TypedOf(config_items_')
               /\ config_code' = "SUCCESS"
          ELSE /\ config_code' = "PROTOCOL_ERROR"
               /\ UNCHANGED <<config_items_, typed>>
       /\ UNCHANGED <<config_file_, config_mutex_, change_callback_,
                      config_pc, config_call, config_ret, invocations,
                      files, saved>>
       /\ UNCHANGED <<protovars, cvars, lvars>>

\* import_config under lock_guard(config_mutex_): the parsed map replaces
\* config_items_; PROTOCOL_ERROR only when the parser returns nullopt
import_config(t, config_str, format) ==
    LET parsed == IF format = JSON_FORMAT THEN parse_json(config_str)
                  ELSE parse_ini(config_str)
    IN /\ ConfigIdle(t)
       /\ config_mutex_ = "free"
       /\ config_ops' = config_ops + 1
       /\ IF IsSome(parsed)
          THEN /\ config_items_' = Val(parsed)
               /\ typed' = TypedOf(Val(parsed))
               /\ config_code' = "SUCCESS"
          ELSE /\ config_code' = "PROTOCOL_ERROR"
               /\ UNCHANGED <<config_items_, typed>>
       /\ UNCHANGED <<config_file_, config_mutex_, change_callback_,
                      config_pc, config_call, config_ret, invocations,
                      files, saved>>
       /\ UNCHANGED <<protovars, cvars, lvars>>

\* the files that exist, with their content
InitialFiles ==
    (<<"a", ".", "j", "s", "o", "n">> :> JsonText) @@ (<<"a", ".", "i", "n", "i">> :> IniText)

\* the paths handed to load_config: the two files, a path that names no
\* file, and the empty path
ConfigPaths == {<<"a", ".", "j", "s", "o", "n">>, <<"a", ".", "i", "n", "i">>, <<"n", "o", "n", "e", ".", "i", "n", "i">>, <<>>}

\* std::ifstream(path).is_open()
Openable(path) == path \in DOMAIN files

\* load_json_config and load_ini_config under the lock of load_config
load_file(path, parse(_)) ==
    IF ~Openable(path) THEN <<"SOCKET_RECEIVE_FAILED", config_items_>>
    ELSE IF IsSome(parse(files[path]))
    THEN <<"SUCCESS", Merge(config_items_, Val(parse(files[path])))>>
    ELSE <<"PROTOCOL_ERROR", config_items_>>

load_json_config(file_path) == load_file(file_path, parse_json)

load_ini_config(file_path) == load_file(file_path, parse_ini)

\* mutant: a file that cannot be opened is an error
load_result_strict(config_file) ==
    IF config_file = <<>> THEN <<"INVALID_PARAMETER", config_items_>>
    ELSE IF ~Openable(config_file)
    THEN <<"SOCKET_RECEIVE_FAILED", config_items_>>
    ELSE IF get_file_extension(config_file) = JSON_FORMAT
    THEN load_json_config(config_file)
    ELSE load_ini_config(config_file)

\* what load_config returns and leaves in config_items_
load_result(config_file) ==
    IF config_file = <<>> THEN <<"INVALID_PARAMETER", config_items_>>
    ELSE IF ~Openable(config_file) THEN <<"SUCCESS", config_items_>>
    ELSE IF get_file_extension(config_file) = JSON_FORMAT
    THEN load_json_config(config_file)
    ELSE load_ini_config(config_file)

\* load_config under lock_guard(config_mutex_); config_file_ is assigned
\* before the path is looked at
load_config(t, config_file) ==
    /\ ConfigIdle(t)
    /\ config_mutex_ = "free"
    /\ config_ops' = config_ops + 1
    /\ config_file_' = config_file
    /\ LET result == load_result(config_file)
       IN /\ config_code' = result[1]
          /\ config_items_' = result[2]
    /\ typed' = [k \in DOMAIN config_items_' |->
                    IF k \in DOMAIN config_items_
                       /\ config_items_'[k] = config_items_[k]
                    THEN typed[k]
                    ELSE <<"string", config_items_'[k].value>>]
    /\ UNCHANGED <<config_mutex_, change_callback_, config_pc, config_call,
                   config_ret, invocations, files, saved>>
    /\ UNCHANGED <<protovars, cvars, lvars>>

\* ConfigManager(""): set_defaults(), no file loaded, no callback
ConfigInit ==
    /\ config_file_ = <<>>
    /\ config_items_ = DefaultConfig
    /\ config_mutex_ = "free"
    /\ change_callback_ = "null"
    /\ config_pc = [t \in Callers |-> "idle"]
    /\ config_call = [t \in Callers |-> NoCall]
    /\ config_ret = FALSE
    /\ config_code = "none"
    /\ invocations = 0
    /\ config_ops = 0
    /\ typed = DefaultTyped
    /\ files = InitialFiles
    /\ saved = EmptyMap
    /\ export_pc = "idle" /\ export_pos = None
    /\ export_seen = EmptyMap /\ export_maps = {}

DoSetItem == \E t \in Callers, k \in ConfigKeys, i \in ListItems :
                 set_item(t, k, i)

DoSetString == \E t \in Callers, k \in ConfigKeys, v \in StringValues :
                   set_string(t, k, v)

DoSetInt == \E t \in Callers, k \in ConfigKeys, v \in IntValues :
                set_int(t, k, v)

DoSetBool == \E t \in Callers, k \in ConfigKeys, v \in BOOLEAN :
                 set_bool(t, k, v)

DoSetDouble == \E t \in Callers, k \in ConfigKeys, v \in DoubleValues :
                   set_double(t, k, v)

DoCallbackReturn == \E t \in Callers : CallbackReturn(t)

DoCallbackThrow == \E t \in Callers : CallbackThrow(t)

DoCallbackReenter == \E t \in Callers : CallbackReenter(t)

DoRemove == \E t \in Callers, k \in ConfigKeys : remove(t, k)

DoClear == \E t \in Callers : clear(t)

DoRegister == \E t \in Callers, cb \in Callbacks :
                  register_change_callback(t, cb)

DoUnregister == \E t \in Callers : unregister_change_callback(t)

DoImport == \E t \in Callers, x \in ImportTexts : import_config(t, x[1], x[2])

DoLoad == \E t \in Callers, p \in ConfigPaths : load_config(t, p)

NextConfig ==
    \/ DoSetItem \/ DoSetString \/ DoSetInt \/ DoSetBool \/ DoSetDouble
    \/ DoCallbackReturn \/ DoCallbackThrow \/ DoCallbackReenter
    \/ DoRemove \/ DoClear \/ DoRegister \/ DoUnregister
    \/ DoImport \/ DoLoad

(* ------------------------------------------------------------------ *)
(* ConfigManager: saving, the environment, a new manager               *)
(* ------------------------------------------------------------------ *)
\* the printable characters in the order of their codes (the grave
\* accent, which no string of the model holds, left out)
Ascii ==
    <<" ", "!", "\"", "#", "$", "%", "&", "'", "(", ")", "*", "+", ",", "-",
      ".", "/", "0", "1", "2", "3", "4", "5", "6", "7", "8", "9", ":", ";",
      "<", "=", ">", "?", "@", "A", "B", "C", "D", "E", "F", "G", "H", "I",
      "J", "K", "L", "M", "N", "O", "P", "Q", "R", "S", "T", "U", "V", "W",
      "X", "Y", "Z", "[", "\\", "]", "^", "_", "a", "b", "c", "d", "e",
      "f", "g", "h", "i", "j", "k", "l", "m", "n", "o", "p", "q", "r", "s",
      "t", "u", "v", "w", "x", "y", "z", "{", "|", "}", "~">>

\* the rank of a character by its code; the control characters come
\* before the printable ones
Code(c) ==
    IF \E i \in 1..Len(Ascii) : Ascii[i] = c THEN IndexIn(c, Ascii) + 2
    ELSE IF c = "\n" THEN 2 ELSE 1

\* std::string operator<, the order of the keys of a std::map
StrLess(a, b) ==
    LET n == IF Len(a) < Len(b) THEN Len(a) ELSE Len(b)
        d == {i \in 1..n : a[i] # b[i]}
    IN IF d = {} THEN Len(a) < Len(b)
       ELSE LET i == CHOOSE x \in d : \A y \in d : x <= y
            IN Code(a[i]) < Code(b[i])

\* the strings of S in the order a std::map iterates over them
RECURSIVE InOrder(_)
InOrder(S) ==
    IF S = {} THEN <<>>
    ELSE LET m == CHOOSE x \in S : \A y \in S \ {x} : StrLess(x, y)
         IN <<m>> \o InOrder(S \ {m})

RECURSIVE Concat(_)
Concat(seqs) == IF seqs = <<>> THEN <<>> ELSE Head(seqs) \o Concat(Tail(seqs))

\* config_to_ini: the part of a key before its first dot, "" without one
SectionOf(key) ==
    IF Find(key, ".") = 0 THEN <<>> ELSE SubSeq(key, 1, Find(key, ".") - 1)

\* config_to_ini: the part of a key after its first dot, all of it
\* without one
NameOf(key) ==
    IF Find(key, ".") = 0 THEN key
    ELSE SubSeq(key, Find(key, ".") + 1, Len(key))

\* sections[section] as the first loop of config_to_ini leaves it: of two
\* keys with the same section and name the later in map order stays
SectionItems(section) ==
    LET keys == {k \in DOMAIN config_items_ : SectionOf(k) = section}
    IN [n \in {NameOf(k) : k \in keys} |->
           config_items_[CHOOSE k \in keys :
               /\ NameOf(k) = n
               /\ \A o \in keys : NameOf(o) = n /\ o # k => StrLess(o, k)]]

config_to_ini ==
    LET sections == InOrder({SectionOf(k) : k \in DOMAIN config_items_})
        line(name, item) ==
            (IF item.description # <<>>
             THEN <<"#", " ">> \o item.description \o <<"\n">> ELSE <<>>)
            \o name \o <<" ", "=", " ">> \o item.value \o <<"\n">>
        body(section) ==
            LET items == SectionItems(section)
                names == InOrder(DOMAIN items)
            IN Concat([i \in 1..Len(names) |-> line(names[i], items[names[i]])])
        text(section) ==
            (IF section # <<>> THEN <<"[">> \o section \o <<"]", "\n">>
             ELSE <<>>)
            \o body(section) \o <<"\n">>
    IN Concat([i \in 1..Len(sections) |-> text(sections[i])])

config_to_json ==
    LET keys == InOrder(DOMAIN config_items_)
        member(i) ==
            (IF i > 1 THEN <<",", "\n">> ELSE <<>>)
            \o <<" ", " ", "\"">> \o keys[i] \o <<"\"", ":", " ", "\"">>
            \o config_items_[keys[i]].value \o <<"\"">>
    IN <<"{", "\n">> \o Concat([i \in 1..Len(keys) |-> member(i)])
       \o <<"\n", "}", "\n">>

\* the paths handed to save_config: a file that exists, two new ones,
\* one in a directory that does not exist, and the empty path
SavePaths == {<<"a", ".", "i", "n", "i">>, <<"o", "u", "t", ".", "i", "n", "i">>, <<"o", "u", "t", ".", "j", "s", "o", "n">>, <<"n", "o", "d", "i", "r", "/", "o", "u", "t", ".", "i", "n", "i">>, <<>>}

\* std::ofstream(path).is_open()
Writable(path) == path # <<"n", "o", "d", "i", "r", "/", "o", "u", "t", ".", "i", "n", "i">>

\* save_config under lock_guard(config_mutex_): save_json_config or
\* save_ini_config writes the whole text to the file
save_config(t, config_file) ==
    LET file_path == IF config_file = <<>> THEN config_file_ ELSE config_file
    IN /\ ConfigIdle(t)
       /\ config_mutex_ = "free"
       /\ config_ops' = config_ops + 1
       /\ IF file_path = <<>>
          THEN /\ config_code' = "INVALID_PARAMETER"
               /\ UNCHANGED <<files, saved>>
          ELSE IF ~Writable(file_path)
          THEN /\ config_code' = "SOCKET_SEND_FAILED"
               /\ UNCHANGED <<files, saved>>
          ELSE /\ config_code' = "SUCCESS"
               /\ files' = Put(files, file_path,
                               IF get_file_extension(file_path) = JSON_FORMAT
                               THEN config_to_json ELSE config_to_ini)
               /\ saved' = Put(saved, file_path, config_items_)
       /\ UNCHANGED <<config_file_, config_items_, config_mutex_,
                      change_callback_, config_pc, config_call, config_ret,
                      invocations, typed>>
       /\ UNCHANGED <<protovars, cvars, lvars>>

\* the manager is dropped and a new one takes its place: ConfigManager()
\* runs set_defaults() and, its path being empty, loads nothing
Construct(t) ==
    /\ \A c \in Callers : config_pc[c] = "idle"
    /\ config_mutex_ = "free"
    /\ config_file_' = <<>>
    /\ config_items_' = DefaultConfig
    /\ change_callback_' = "null"
    /\ typed' = DefaultTyped
    /\ UNCHANGED <<config_mutex_, config_pc, config_call, config_ret,
                   config_code, invocations, config_ops, files, saved>>
    /\ UNCHANGED <<protovars, cvars, lvars>>

\* the six names load_from_environment looks up after the prefix
ENV_VARS ==
    <<<<"S", "E", "R", "V", "E", "R", "_", "H", "O", "S", "T">>, <<"S", "E", "R", "V", "E", "R", "_", "P", "O", "R", "T">>, <<"T", "I", "M", "E", "O", "U", "T", "_", "M", "S">>,
      <<"M", "A", "X", "_", "R", "E", "T", "R", "I", "E", "S">>, <<"E", "N", "A", "B", "L", "E", "_", "K", "E", "E", "P", "_", "A", "L", "I", "V", "E">>, <<"L", "O", "G", "_", "L", "E", "V", "E", "L">>>>

\* std::transform(::tolower), then std::replace('_', '.')
EnvKey(var) == [i \in 1..Len(var) |->
                   IF ToLower(var)[i] = "_" THEN "." ELSE ToLower(var)[i]]

ENV_PREFIX == <<"U", "D", "P", "2", "D", "O", "C", "K", "E", "R", "_">>

\* the environments the process runs in: nothing set, one variable set,
\* two set, all six set, and one variable set under another prefix
EnvAll ==
    [n \in {ENV_PREFIX \o ENV_VARS[i] : i \in 1..6} |->
        IF n = ENV_PREFIX \o ENV_VARS[1] THEN <<"e", "x", "a", "m", "p", "l", "e", ".", "o", "r", "g">> ELSE <<"7">>]

Environments ==
    {EmptyMap,
     [n \in {ENV_PREFIX \o ENV_VARS[1]} |-> EnvAll[n]],
     [n \in {ENV_PREFIX \o ENV_VARS[3], ENV_PREFIX \o ENV_VARS[6]} |->
         EnvAll[n]],
     EnvAll,
     [n \in {<<"A", "P", "P", "_">> \o ENV_VARS[2]} |-> <<"7">>]}

\* load_from_environment under lock_guard(config_mutex_); env is what
\* std::getenv finds
load_from_environment(t, prefix, env) ==
    LET found == {i \in 1..6 : prefix \o ENV_VARS[i] \in DOMAIN env}
        value(key) == env[prefix \o ENV_VARS[
                          CHOOSE i \in found : EnvKey(ENV_VARS[i]) = key]]
        keys == {EnvKey(ENV_VARS[i]) : i \in found}
    IN /\ ConfigIdle(t)
       /\ config_mutex_ = "free"
       /\ config_ops' = config_ops + 1
       /\ config_items_' =
              [k \in DOMAIN config_items_ \cup keys |->
                  IF k \in keys
                  THEN ConfigItem(STRING_T, value(k),
                                  <<"E", "n", "v", "i", "r", "o", "n", "m", "e", "n", "t", " ", "v", "a", "r", "i", "a", "b", "l", "e">>, FALSE)
                  ELSE config_items_[k]]
       /\ typed' = [k \in DOMAIN typed \cup keys |->
                       IF k \in keys THEN <<"string", value(k)>>
                       ELSE typed[k]]
       /\ UNCHANGED <<config_file_, config_mutex_, change_callback_,
                      config_pc, config_call, config_ret, config_code,
                      invocations, files, saved>>
       /\ UNCHANGED <<protovars, cvars, lvars>>

\* the keys and values the callers store before saving: a key the
\* defaults install, one with no dot, one with several dots, one that
\* begins with a dot
IniKeys == {<<"s", "e", "r", "v", "e", "r", ".", "h", "o", "s", "t">>, <<"k">>, <<"a", ".", "b", ".", "c">>, <<".", "x">>}

IniValues == {<<"l", "o", "c", "a", "l", "h", "o", "s", "t">>, <<"9", "0", "0", "0">>}

DoSetIni == \E t \in Callers, k \in IniKeys, v \in IniValues :
                set_string(t, k, v)

DoSave == \E t \in Callers, p \in SavePaths : save_config(t, p)

DoConstruct == \E t \in Callers : Construct(t)

DoLoadSaved == \E t \in Callers, p \in SavePaths \cup ConfigPaths :
                   load_config(t, p)

DoLoadEnv == \E t \in Callers, p \in {ENV_PREFIX, <<"A", "P", "P", "_">>},
                e \in Environments : load_from_environment(t, p, e)

NextPersist ==
    \/ DoSetIni \/ DoSave \/ DoConstruct \/ DoLoadSaved \/ DoLoadEnv

(* ------------------------------------------------------------------ *)
(* UdpClient (udp_client.cpp)                                          *)
(*                                                                     *)
(* One calling thread issues the public operations; close() and        *)
(* stop_receive_async() block in std::thread::join, so they are split  *)
(* at the joins.  The receive loop and the keep-alive loop run as      *)
(* threads of their own.  A thread handle is "none" when it is not     *)
(* joinable, otherwise it shows where its thread is: "top" (about to   *)
(* test the loop condition), "recv" (in receive), "sleep", "finished"  *)
(* (the thread function has returned, the handle is still joinable).   *)
(* ------------------------------------------------------------------ *)
INVALID_FD == -1

\* the descriptor socket() hands out
SOCKET_FD == 3

\* Statistics{} (the time of last activity is left out)
ZeroStats ==
    [packets_sent |-> 0, packets_received |-> 0, bytes_sent |-> 0,
     bytes_received |-> 0, send_errors |-> 0, receive_errors |-> 0]

\* the (message callback, error callback) pairs a caller passes; "null"
\* is an empty std::function, the default of the second parameter
CallbackPairs ==
    {<<"on_message_1", "null">>, <<"on_message_2", "on_error_1">>}

\* lengths of received datagrams
RecvSizes == {1, 2}

\* the buffers a caller sends: one of each length up to MaxLen
SendData == {[i \in 1..n |-> 72] : n \in 0..MaxLen}

\* the transport has room for another sendto or recvfrom
IoLeft == sendto_calls + recvfrom_calls < MaxIo

\* the threads that touch the statistics of one client: a caller, the
\* detached thread of a send_async, and the two loops
StatThreads == {"caller", "send_async", "keep_alive_loop", "receive_loop"}

\* a thread that is not inside a statistics operation
StatIdle == [pc |-> "idle", op |-> "none", bytes |-> 0, tmp |-> 0]

MaxAsync == 2

\* the send_async calls a run can make
AsyncIds == 1..MaxAsync

\* no thread was started for this call yet
NoTask ==
    [pc |-> "unused", data |-> <<>>, callback |-> "null", result |-> "none",
     invoked |-> 0, code |-> "none"]

\* no client has been moved from
NoSource ==
    [state |-> "none", via |-> "none", socket_ |-> INVALID_FD, is_initialized_ |-> FALSE,
     is_receiving_ |-> FALSE, should_stop_ |-> FALSE, loops |-> FALSE]

\* the threads that send besides the loops: a thread of the application
\* and the detached thread of a send_async
SendThreads == {"application", "send_async"}

\* a thread that is not inside send
NotSending == [pc |-> "idle", data |-> <<>>]

\* no loop thread was created
NoThreads == [receive_loop |-> 0, keep_alive_loop |-> 0]

\* the receive loop has not passed through its body
NoRx ==
    [iterations |-> 0, code |-> "none", buffer |-> <<>>, from |-> <<>>,
     calls |-> <<>>]

\* the keep-alive loop has not passed through its body
NoKa ==
    [iterations |-> 0, code |-> "none", data |-> <<>>, target |-> <<>>,
     calls |-> <<>>]

\* UdpClient::UdpClient(const UdpConfig& config = UdpConfig{})
ClientInit ==
    /\ is_initialized_ = FALSE /\ is_receiving_ = FALSE
    /\ should_stop_ = FALSE
    /\ socket_ = INVALID_FD /\ sock_timeout = FALSE
    /\ enable_keep_alive = TRUE
    /\ stats_ = ZeroStats
    /\ receive_thread_ = "none" /\ keep_alive_thread_ = "none"
    /\ message_callback_ = "null" /\ error_callback_ = "null"
    /\ main_pc = "ready" /\ ret = "none"
    /\ sendto_calls = 0 /\ recvfrom_calls = 0
    /\ crashed = FALSE
    /\ source = NoSource
    /\ stats_mutex_ = "none"
    /\ stat_thread = [t \in StatThreads |-> StatIdle]
    /\ snapshot = ZeroStats /\ completed = ZeroStats
    /\ stat_ops = 0
    /\ async_task = [i \in AsyncIds |-> NoTask]
    /\ rx = NoRx /\ ka = NoKa
    /\ call_pc = [t \in Callers |-> "idle"]
    /\ session_threads = NoThreads
    /\ overwritten = 0
    /\ sender = [s \in SendThreads |-> NotSending]
    /\ released_io = 0
    /\ sessions = 0

Init == ProtocolInit /\ ClientInit /\ LoggerInit /\ ConfigInit

is_connected == is_initialized_

\* the calling thread is between two operations
Ready == main_pc = "ready" /\ ~crashed

\* mutant: the byte counter counts calls, not bytes
update_stats_sent_percall(st, bytes) ==
    [st EXCEPT !.packets_sent = @ + 1, !.bytes_sent = @ + 1]

update_stats_sent(st, bytes) ==
    [st EXCEPT !.packets_sent = @ + 1, !.bytes_sent = @ + bytes]

update_stats_received(st, bytes) ==
    [st EXCEPT !.packets_received = @ + 1, !.bytes_received = @ + bytes]

update_stats_error(st, is_send_error) ==
    IF is_send_error THEN [st EXCEPT !.send_errors = @ + 1]
    ELSE [st EXCEPT !.receive_errors = @ + 1]

\* mutant: is_initialized_ is set before the result of init_socket() is
\* looked at
Initialize_eager ==
    /\ Ready
    /\ IF is_initialized_
       THEN /\ ret' = "SUCCESS"
            /\ UNCHANGED <<is_initialized_, socket_, sock_timeout>>
       ELSE \E outcome \in {"ok", "wsa_failed", "socket_failed"} :
              /\ socket_' = IF outcome = "ok" THEN SOCKET_FD
                            ELSE IF outcome = "socket_failed" THEN INVALID_FD
                            ELSE socket_
              /\ sock_timeout' = FALSE
              /\ is_initialized_' = TRUE
              /\ ret' = IF outcome = "ok" THEN "SUCCESS"
                         ELSE IF outcome = "wsa_failed"
                         THEN "SOCKET_INIT_FAILED"
                         ELSE "SOCKET_CREATE_FAILED"
    /\ UNCHANGED <<is_receiving_, should_stop_, enable_keep_alive, stats_,
                   cthreads, ccallbacks, main_pc, cenv, protovars, ovars>>

\* initialize(): init_socket() creates the socket and calls set_timeout,
\* which sets no socket option because is_initialized_ is still false.
\* outcome: "ok", "wsa_failed" (WSAStartup, Windows build only),
\* "socket_failed" (socket() returned an invalid descriptor)
Initialize ==
    /\ Ready
    /\ IF is_initialized_
       THEN /\ ret' = "SUCCESS"
            /\ UNCHANGED <<is_initialized_, socket_, sock_timeout>>
       ELSE \E outcome \in {"ok", "wsa_failed", "socket_failed"} :
              /\ socket_' = IF outcome = "ok" THEN SOCKET_FD
                            ELSE IF outcome = "socket_failed" THEN INVALID_FD
                            ELSE socket_
              /\ sock_timeout' = FALSE
              /\ is_initialized_' = (outcome = "ok")
              /\ ret' = IF outcome = "ok" THEN "SUCCESS"
                         ELSE IF outcome = "wsa_failed"
                         THEN "SOCKET_INIT_FAILED"
                         ELSE "SOCKET_CREATE_FAILED"
    /\ UNCHANGED <<is_receiving_, should_stop_, enable_keep_alive, stats_,
                   cthreads, ccallbacks, main_pc, cenv, protovars, ovars>>

\* mutant: the empty payload is tested before is_initialized_
send_code_emptyfirst(data, ok) ==
    IF Len(data) = 0 THEN "INVALID_PARAMETER"
    ELSE IF ~is_initialized_ THEN "SOCKET_INIT_FAILED"
    ELSE IF ~ok THEN "SOCKET_SEND_FAILED"
    ELSE "SUCCESS"

\* the code send(data) returns; ok: sendto succeeds
send_code(data, ok) ==
    IF ~is_initialized_ THEN "SOCKET_INIT_FAILED"
    ELSE IF Len(data) = 0 THEN "INVALID_PARAMETER"
    ELSE IF ~ok THEN "SOCKET_SEND_FAILED"
    ELSE "SUCCESS"

\* what send(data) does to the statistics and to the transport
send(data, ok) ==
    LET code == send_code(data, ok)
    IN /\ sendto_calls' = IF code \in {"SUCCESS", "SOCKET_SEND_FAILED"}
                          THEN sendto_calls + 1 ELSE sendto_calls
       /\ stats_' = IF code = "SUCCESS"
                    THEN update_stats_sent(stats_, Len(data))
                    ELSE IF code = "SOCKET_SEND_FAILED"
                    THEN update_stats_error(stats_, TRUE)
                    ELSE stats_

\* a send call of the calling thread
Send(data, ok) ==
    /\ Ready
    /\ send_code(data, ok) \in {"SUCCESS", "SOCKET_SEND_FAILED"} => IoLeft
    /\ send(data, ok)
    /\ ret' = send_code(data, ok)
    /\ UNCHANGED <<cflags, socket_, sock_timeout, enable_keep_alive, cthreads,
                   ccallbacks, main_pc, recvfrom_calls, crashed, protovars, ovars>>

\* send_string: buffer_t data(message.begin(), message.end()); send(data)
SendString(message, ok) ==
    /\ Ready
    /\ send_code(message, ok) \in {"SUCCESS", "SOCKET_SEND_FAILED"} => IoLeft
    /\ send([i \in 1..Len(message) |-> message[i]], ok)
    /\ ret' = send_code(message, ok)
    /\ UNCHANGED <<cflags, socket_, sock_timeout, enable_keep_alive, cthreads,
                   ccallbacks, main_pc, recvfrom_calls, crashed, protovars, ovars>>

\* mutant: the keep-alive thread is started whatever the configuration says
StartReceiveAsync_alwayska(mcb, ecb) ==
    /\ Ready
    /\ IF ~is_initialized_
       THEN /\ ret' = "SOCKET_INIT_FAILED"
            /\ UNCHANGED <<is_receiving_, should_stop_, cthreads, ccallbacks,
                           crashed>>
       ELSE IF is_receiving_
       THEN /\ ret' = "SUCCESS"
            /\ UNCHANGED <<is_receiving_, should_stop_, cthreads, ccallbacks,
                           crashed>>
       ELSE /\ message_callback_' = mcb
            /\ error_callback_' = ecb
            /\ is_receiving_' = TRUE
            /\ should_stop_' = FALSE
            /\ receive_thread_' = "top"
            /\ keep_alive_thread_' = "top"
            /\ crashed' = \/ receive_thread_ # "none"
                          \/ keep_alive_thread_ # "none"
            /\ ret' = "SUCCESS"
    /\ UNCHANGED <<is_initialized_, socket_, sock_timeout, enable_keep_alive,
                   stats_, main_pc, sendto_calls, recvfrom_calls, protovars, ovars>>

\* start_receive_async(message_callback, error_callback); assigning to a
\* std::thread that is still joinable calls std::terminate
StartReceiveAsync(mcb, ecb) ==
    /\ Ready
    /\ IF ~is_initialized_
       THEN /\ ret' = "SOCKET_INIT_FAILED"
            /\ UNCHANGED <<is_receiving_, should_stop_, cthreads, ccallbacks,
                           crashed>>
       ELSE IF is_receiving_
       THEN /\ ret' = "SUCCESS"
            /\ UNCHANGED <<is_receiving_, should_stop_, cthreads, ccallbacks,
                           crashed>>
       ELSE /\ message_callback_' = mcb
            /\ error_callback_' = ecb
            /\ is_receiving_' = TRUE
            /\ should_stop_' = FALSE
            /\ receive_thread_' = "top"
            /\ keep_alive_thread_' = IF enable_keep_alive THEN "top"
                                     ELSE keep_alive_thread_
            /\ crashed' = \/ receive_thread_ # "none"
                          \/ (enable_keep_alive /\ keep_alive_thread_ # "none")
            /\ ret' = "SUCCESS"
    /\ UNCHANGED <<is_initialized_, socket_, sock_timeout, enable_keep_alive,
                   stats_, main_pc, sendto_calls, recvfrom_calls, protovars, ovars>>

\* if (t.joinable()) t.join(): passes at once when t is not joinable,
\* waits for the thread function to return otherwise
Joined(t) == t \in {"none", "finished"}

\* stop_receive_async() up to its first join
StopBegin ==
    /\ Ready
    /\ IF ~is_receiving_
       THEN UNCHANGED <<is_receiving_, should_stop_, main_pc>>
       ELSE /\ should_stop_' = TRUE
            /\ is_receiving_' = FALSE
            /\ main_pc' = "stop_join_rx"
    /\ UNCHANGED <<is_initialized_, socket_, sock_timeout, enable_keep_alive,
                   stats_, cthreads, ccallbacks, ret, cenv, protovars, ovars>>

StopJoinRx ==
    /\ main_pc = "stop_join_rx" /\ ~crashed
    /\ Joined(receive_thread_)
    /\ receive_thread_' = "none"
    /\ main_pc' = "stop_join_ka"
    /\ UNCHANGED <<cflags, socket_, sock_timeout, enable_keep_alive, stats_,
                   keep_alive_thread_, ccallbacks, ret, cenv, protovars, ovars>>

StopJoinKa ==
    /\ main_pc = "stop_join_ka" /\ ~crashed
    /\ Joined(keep_alive_thread_)
    /\ keep_alive_thread_' = "none"
    /\ main_pc' = "ready"
    /\ UNCHANGED <<cflags, socket_, sock_timeout, enable_keep_alive, stats_,
                   receive_thread_, ccallbacks, ret, cenv, protovars, ovars>>

\* mutant: close() sets the flags and goes on to release the socket
\* without joining the threads
CloseBegin_nojoin ==
    /\ Ready
    /\ IF ~is_initialized_
       THEN UNCHANGED <<is_receiving_, should_stop_, main_pc>>
       ELSE /\ should_stop_' = TRUE
            /\ is_receiving_' = FALSE
            /\ main_pc' = "close_cleanup"
    /\ UNCHANGED <<is_initialized_, socket_, sock_timeout, enable_keep_alive,
                   stats_, cthreads, ccallbacks, ret, cenv, protovars, ovars>>

\* close() up to the first join: should_stop_ = true, then the body of
\* stop_receive_async()
CloseBegin ==
    /\ Ready
    /\ IF ~is_initialized_
       THEN UNCHANGED <<is_receiving_, should_stop_, main_pc>>
       ELSE /\ should_stop_' = TRUE
            /\ is_receiving_' = FALSE
            /\ main_pc' = IF is_receiving_ THEN "close_stop_join_rx"
                          ELSE "close_join_rx"
    /\ UNCHANGED <<is_initialized_, socket_, sock_timeout, enable_keep_alive,
                   stats_, cthreads, ccallbacks, ret, cenv, protovars, ovars>>

\* the joins of the stop_receive_async() that close() calls
CloseStopJoinRx ==
    /\ main_pc = "close_stop_join_rx" /\ ~crashed
    /\ Joined(receive_thread_)
    /\ receive_thread_' = "none"
    /\ main_pc' = "close_stop_join_ka"
    /\ UNCHANGED <<cflags, socket_, sock_timeout, enable_keep_alive, stats_,
                   keep_alive_thread_, ccallbacks, ret, cenv, protovars, ovars>>

CloseStopJoinKa ==
    /\ main_pc = "close_stop_join_ka" /\ ~crashed
    /\ Joined(keep_alive_thread_)
    /\ keep_alive_thread_' = "none"
    /\ main_pc' = "close_join_rx"
    /\ UNCHANGED <<cflags, socket_, sock_timeout, enable_keep_alive, stats_,
                   receive_thread_, ccallbacks, ret, cenv, protovars, ovars>>

\* close()'s own joins
CloseJoinRx ==
    /\ main_pc = "close_join_rx" /\ ~crashed
    /\ Joined(receive_thread_)
    /\ receive_thread_' = "none"
    /\ main_pc' = "close_join_ka"
    /\ UNCHANGED <<cflags, socket_, sock_timeout, enable_keep_alive, stats_,
                   keep_alive_thread_, ccallbacks, ret, cenv, protovars, ovars>>

CloseJoinKa ==
    /\ main_pc = "close_join_ka" /\ ~crashed
    /\ Joined(keep_alive_thread_)
    /\ keep_alive_thread_' = "none"
    /\ main_pc' = "close_cleanup"
    /\ UNCHANGED <<cflags, socket_, sock_timeout, enable_keep_alive, stats_,
                   receive_thread_, ccallbacks, ret, cenv, protovars, ovars>>

\* cleanup_socket(); is_initialized_ = false; return
CloseCleanup ==
    /\ main_pc = "close_cleanup" /\ ~crashed
    /\ socket_' = INVALID_FD
    /\ sock_timeout' = FALSE
    /\ is_initialized_' = FALSE
    /\ main_pc' = "ready"
    /\ UNCHANGED <<is_receiving_, should_stop_, enable_keep_alive, stats_,
                   cthreads, ccallbacks, ret, cenv, protovars, ovars>>

\* update_config(config): config_ = config, then set_timeout when
\* initialized
UpdateConfig(keep_alive) ==
    /\ Ready
    /\ enable_keep_alive' = keep_alive
    /\ sock_timeout' = IF is_initialized_ THEN TRUE ELSE sock_timeout
    /\ ret' = "SUCCESS"
    /\ UNCHANGED <<cflags, socket_, stats_, cthreads, ccallbacks, main_pc,
                   cenv, protovars, ovars>>

\* set_timeout(timeout_ms): setsockopt only when initialized
SetTimeout ==
    /\ Ready
    /\ sock_timeout' = IF is_initialized_ THEN TRUE ELSE sock_timeout
    /\ UNCHANGED <<cflags, socket_, enable_keep_alive, stats_, cthreads,
                   ccallbacks, main_pc, ret, cenv, protovars, ovars>>

\* receive_loop: while (!should_stop_)
RxCheck ==
    /\ receive_thread_ = "top" /\ ~crashed
    /\ receive_thread_' = IF should_stop_ THEN "finished" ELSE "recv"
    /\ UNCHANGED <<cflags, socket_, sock_timeout, enable_keep_alive, stats_,
                   keep_alive_thread_, ccallbacks, main_pc, ret, cenv,
                   protovars, ovars>>

\* receive_loop: receive() and the callback.  recvfrom returns a datagram,
\* fails, or - only when a receive timeout is set on the socket - times out
RxReceive ==
    /\ receive_thread_ = "recv" /\ ~crashed
    /\ \/ /\ is_initialized_ /\ IoLeft
          /\ \E n \in RecvSizes :
                stats_' = update_stats_received(stats_, n)
          /\ recvfrom_calls' = recvfrom_calls + 1
       \/ /\ is_initialized_ /\ IoLeft
          /\ stats_' = update_stats_error(stats_, FALSE)
          /\ recvfrom_calls' = recvfrom_calls + 1
       \/ /\ is_initialized_ /\ sock_timeout
          /\ UNCHANGED <<stats_, recvfrom_calls>>
       \/ /\ ~is_initialized_
          /\ UNCHANGED <<stats_, recvfrom_calls>>
    /\ receive_thread_' = "sleep"
    /\ UNCHANGED <<cflags, socket_, sock_timeout, enable_keep_alive,
                   keep_alive_thread_, ccallbacks, main_pc, ret,
                   sendto_calls, crashed, protovars, ovars>>

\* receive_loop: sleep_for(1ms), back to the loop condition
RxSleep ==
    /\ receive_thread_ = "sleep" /\ ~crashed
    /\ receive_thread_' = "top"
    /\ UNCHANGED <<cflags, socket_, sock_timeout, enable_keep_alive, stats_,
                   keep_alive_thread_, ccallbacks, main_pc, ret, cenv,
                   protovars, ovars>>

\* keep_alive_loop: while (!should_stop_)
KaCheck ==
    /\ keep_alive_thread_ = "top" /\ ~crashed
    /\ keep_alive_thread_' = IF should_stop_ THEN "finished" ELSE "sleep"
    /\ UNCHANGED <<cflags, socket_, sock_timeout, enable_keep_alive, stats_,
                   receive_thread_, ccallbacks, main_pc, ret, cenv,
                   protovars, ovars>>

\* keep_alive_loop: the sleep ends; if (should_stop_) break; otherwise
\* send(heartbeat) with heartbeat = {'H', 'B'}
KaWake ==
    /\ keep_alive_thread_ = "sleep" /\ ~crashed
    /\ IF should_stop_
       THEN /\ keep_alive_thread_' = "finished"
            /\ UNCHANGED <<stats_, sendto_calls>>
       ELSE /\ IoLeft
            /\ \E ok \in BOOLEAN : send(<<72, 66>>, ok)
            /\ keep_alive_thread_' = "top"
    /\ UNCHANGED <<cflags, socket_, sock_timeout, enable_keep_alive,
                   receive_thread_, ccallbacks, main_pc, ret, recvfrom_calls,
                   crashed, protovars, ovars>>

DoSend == \E d \in SendData, ok \in BOOLEAN : Send(d, ok)

DoSendString == \E d \in SendData, ok \in BOOLEAN : SendString(d, ok)

DoStartReceiveAsync ==
    \E cb \in CallbackPairs : StartReceiveAsync(cb[1], cb[2])

DoUpdateConfig == \E k \in BOOLEAN : UpdateConfig(k)

NextClient ==
    \/ Initialize
    \/ DoSend
    \/ DoSendString
    \/ DoStartReceiveAsync
    \/ StopBegin
    \/ StopJoinRx
    \/ StopJoinKa
    \/ CloseBegin
    \/ CloseStopJoinRx
    \/ CloseStopJoinKa
    \/ CloseJoinRx
    \/ CloseJoinKa
    \/ CloseCleanup
    \/ DoUpdateConfig
    \/ SetTimeout
    \/ RxCheck
    \/ RxReceive
    \/ RxSleep
    \/ KaCheck
    \/ KaWake

SpecClient == Init /\ [][NextClient]_vars

(* ------------------------------------------------------------------ *)
(* Message round trip: build, serialize, deserialize                   *)
(* ------------------------------------------------------------------ *)
\* The caller works on one message at a time: it builds one when it holds
\* none, and lets go of it (and of the buffers made from it) with Drop.
Idle == msg = NotYet

Drop ==
    /\ msg # NotYet \/ wire # NotYet
    /\ msg' = NotYet /\ sent' = NotYet /\ wire' = NotYet /\ decoded' = NotYet
    /\ UNCHANGED <<ovars, cvars, pvars, ivars>>

MakeHeartbeat == Idle /\ \E ts \in Timestamps : create_heartbeat(ts)

MakeDataMessage ==
    /\ Idle
    /\ \E p \in Payloads, pr \in Priorities, ts \in Timestamps :
           create_data_message(p, pr, ts)

MakeStringMessage ==
    /\ Idle
    /\ \E p \in Payloads, pr \in Priorities, ts \in Timestamps :
           create_string_message(p, pr, ts)

MakeControlMessage ==
    /\ Idle
    /\ \E p \in Payloads, pr \in Priorities, ts \in Timestamps :
           create_control_message(p, pr, ts)

MakeResponseMessage ==
    /\ Idle
    /\ \E p \in Payloads, ts \in Timestamps :
           create_response_message(sequence_counter_, p, ts)

MakeErrorMessage ==
    /\ Idle
    /\ \E e \in ErrorCodes, p \in Payloads, ts \in Timestamps :
           create_error_message(e, p, ts)

MakeByConstructor ==
    /\ Idle
    /\ \E t \in MessageTypes, p \in Payloads, pr \in Priorities :
           NewMessage(t, p, pr)

MakeByBuilder ==
    /\ Idle
    /\ \E t \in MessageTypes, p \in Payloads, pr \in Priorities,
          id \in {U32Zero, U32(7), U32Max} :
           BuilderBuild(t, pr, p, id)

SetCompression == \E e \in BOOLEAN : set_compression_enabled(e)

SetEncryption == \E e \in BOOLEAN : set_encryption_enabled(e)

DoSerialize == \E ts \in Timestamps : Serialize(ts)

NextRound ==
    \/ MakeHeartbeat
    \/ MakeDataMessage
    \/ MakeStringMessage
    \/ MakeControlMessage
    \/ MakeResponseMessage
    \/ MakeErrorMessage
    \/ MakeByConstructor
    \/ MakeByBuilder
    \/ SetCompression
    \/ SetEncryption
    \/ DoSerialize
    \/ Deserialize
    \/ Drop

SpecRound == Init /\ [][NextRound]_vars

\* C1: a message whose payload fits the maximum message size serializes,
\* and deserializing the frame gives back a message with the same type,
\* priority, sequence id and payload bytes, whatever the hook settings.
HeaderRoundTrip ==
    /\ (sent # NotYet /\ Len(Val(msg).payload) <= max_message_size_) =>
          IsSome(sent)
    /\ (decoded # NotYet /\ IsSome(sent) /\ wire = sent) =>
          /\ IsSome(decoded)
          /\ Val(decoded).header.type = Val(msg).header.type
          /\ Val(decoded).header.priority = Val(msg).header.priority
          /\ Val(decoded).header.sequence_id = Val(msg).header.sequence_id
          /\ Val(decoded).payload = Val(msg).payload

\* a non-default message went through both hooks and came back
HeaderRoundTripWitness ==
    /\ IsSome(decoded)
    /\ wire = sent
    /\ compression_enabled_ /\ encryption_enabled_
    /\ Val(msg).header.type = CONTROL
    /\ Val(msg).header.priority = CRITICAL
    /\ Val(msg).header.sequence_id = U32(2)
    /\ Len(Val(msg).payload) = MaxLen

(* ------------------------------------------------------------------ *)
(* Frames damaged between serialize and deserialize                    *)
(* ------------------------------------------------------------------ *)
MakePlainData ==
    /\ Idle
    /\ \E p \in Payloads : create_data_message(p, NORMAL, U32(1762300800))

\* one byte of the frame's payload is replaced by a different value
FlipPayloadByte ==
    /\ IsSome(sent) /\ wire = sent /\ decoded = NotYet
    /\ \E i \in 1..(Len(Val(sent)) - header_size) :
         \E b \in 0..255 \ {Val(sent)[header_size + i]} :
            wire' = Some([Val(sent) EXCEPT ![header_size + i] = b])
    /\ UNCHANGED <<ovars, cvars, msg, sent, decoded, pvars, ivars>>

NextTamper ==
    \/ MakeHeartbeat
    \/ MakePlainData
    \/ DoSerialize
    \/ FlipPayloadByte
    \/ Deserialize
    \/ Drop

SpecTamper == Init /\ [][NextTamper]_vars

\* f and g are equally long, agree on the 32 header bytes and differ in
\* exactly one of the bytes after them
OnePayloadByteDiffers(f, g) ==
    /\ Len(f) = Len(g)
    /\ \A i \in 1..header_size : f[i] = g[i]
    /\ Cardinality({i \in (header_size + 1)..Len(f) : f[i] # g[i]}) = 1

\* C2: a frame of a message with a non-empty payload, with exactly one
\* payload byte changed to any other value, is rejected by deserialize.
ChecksumSensitivity ==
    (/\ decoded # NotYet
     /\ IsSome(sent)
     /\ Len(Val(msg).payload) > 0
     /\ OnePayloadByteDiffers(Val(sent), Val(wire)))
    => decoded = None

\* the last byte of a two-byte payload was changed and the frame refused
ChecksumSensitivityWitness ==
    /\ decoded = None
    /\ IsSome(sent)
    /\ Len(Val(sent)) = header_size + 2
    /\ OnePayloadByteDiffers(Val(sent), Val(wire))
    /\ Val(wire)[header_size + 2] = (Val(sent)[header_size + 2] + 128) % 256

(* ------------------------------------------------------------------ *)
(* Malformed buffers handed to deserialize                             *)
(* ------------------------------------------------------------------ *)
\* data with the bytes at offset off replaced by the given ones
Overwrite(data, off, bytes) ==
    [i \in 1..Len(data) |->
        IF i > off /\ i <= off + Len(bytes) THEN bytes[i - off] ELSE data[i]]

\* the magic number as it lies in a buffer, and four damaged variants
MagicBytes == LE32(MAGIC)

MagicChoices ==
    {MagicBytes, <<170, 85, 170, 84>>, <<0, 85, 170, 85>>,
     <<85, 170, 85, 170>>, <<0, 0, 0, 0>>}

VersionChoices == {1, 2, 65535}

\* declared payload sizes for a frame that carries n payload bytes
SizeChoices(n) == {U32(n), U32(n + 1), U32Max}

SetVersion == \E v \in Versions : set_protocol_version(v)

\* the magic, version and payload_size fields of the frame are rewritten
CorruptHeader ==
    /\ IsSome(sent) /\ wire = sent /\ decoded = NotYet
    /\ \E m \in MagicChoices, v \in VersionChoices,
          z \in SizeChoices(Len(Val(sent)) - header_size) :
          /\ wire' = Some(Overwrite(Overwrite(Overwrite(Val(sent), 0, m),
                                              4, LE16(v)), 18, LE32(z)))
          /\ wire' # wire
    /\ UNCHANGED <<ovars, cvars, msg, sent, decoded, pvars, ivars>>

\* only the first n bytes of the buffer arrive
TruncateWire ==
    /\ wire # NotYet /\ decoded = NotYet
    /\ \E n \in {0, 1, header_size - 1, header_size, header_size + 1} :
          /\ n < Len(Val(wire))
          /\ wire' = Some(SubSeq(Val(wire), 1, n))
    /\ UNCHANGED <<ovars, cvars, msg, sent, decoded, pvars, ivars>>

\* a short buffer that no serialize call produced
ReceiveRaw ==
    /\ Idle /\ wire = NotYet
    /\ \E p \in Payloads : wire' = Some(p)
    /\ UNCHANGED <<ovars, cvars, msg, sent, decoded, pvars, ivars>>

NextReject ==
    \/ MakeHeartbeat
    \/ MakePlainData
    \/ SetVersion
    \/ DoSerialize
    \/ CorruptHeader
    \/ TruncateWire
    \/ ReceiveRaw
    \/ Deserialize
    \/ Drop

SpecReject == Init /\ [][NextReject]_vars

\* the payload_size the buffer's header declares
DeclaredSize(data) == FromLE32(data, 18)

\* C3: deserialize returns no message for a buffer shorter than 32 bytes,
\* for a buffer of 32 or more bytes that does not start with the magic
\* number, and for a buffer whose header declares more payload bytes than
\* follow the header; a version above the protocol's own does not by
\* itself cause rejection.
RejectMalformed ==
    decoded # NotYet =>
        LET data == Val(wire)
        IN /\ Len(data) < header_size => decoded = None
           /\ (Len(data) >= header_size
                  /\ SubSeq(data, 1, 4) # MagicBytes) => decoded = None
           /\ (Len(data) >= header_size
                  /\ SizeLessU32(Len(data) - header_size, DeclaredSize(data)))
                 => decoded = None
           /\ (/\ Len(data) >= header_size
               /\ SubSeq(data, 1, 4) = MagicBytes
               /\ ~SizeLessU32(Len(data) - header_size, DeclaredSize(data))
               /\ calculate_checksum(Slice(data, header_size,
                       header_size + DeclaredSize(data)[2]))
                    = FromLE32(data, 22)
               /\ FromLE16(data, 4) > protocol_version_)
              => IsSome(decoded)

\* a frame that is intact except for the last byte of its magic number
\* was refused
RejectMalformedWitness ==
    /\ decoded = None
    /\ IsSome(sent)
    /\ Len(Val(wire)) = Len(Val(sent))
    /\ Len(Val(wire)) > header_size
    /\ SubSeq(Val(wire), 1, 4) = <<170, 85, 170, 84>>
    /\ \A i \in 5..Len(Val(wire)) : Val(wire)[i] = Val(sent)[i]

(* ------------------------------------------------------------------ *)
(* Sequence ids                                                        *)
(* ------------------------------------------------------------------ *)
NextSeq ==
    \/ get_next_sequence_id
    \/ get_next_sequence_id_loop
    \/ reset_sequence_id
    \/ MakeHeartbeat
    \/ MakeDataMessage
    \/ MakeStringMessage
    \/ MakeControlMessage
    \/ MakeResponseMessage
    \/ MakeErrorMessage
    \/ Drop

SpecSeq == Init /\ [][NextSeq]_vars

\* C4 as claimed: every id issued is greater than the id issued before it
\* since construction or the last reset, for any number of calls; the first
\* id issued after construction or after a reset is 1.
SequenceStrictlyIncreasing ==
    /\ IsSome(first_id) => Val(first_id) = U32(1)
    /\ IsSome(prev_id) => U32Less(Val(prev_id), Val(last_id))

\* C4 as amended: every id issued is one more than the id issued before it,
\* hence greater, except that the id after 4294967295 is 0; the first id
\* issued after construction or after a reset is 1; a factory stamps the
\* id it was issued.
SequenceIncreasingUntilWrap ==
    /\ [](/\ IsSome(first_id) => Val(first_id) = U32(1)
          /\ IsSome(prev_id) =>
                IF Val(prev_id) = U32Max THEN Val(last_id) = U32Zero
                ELSE U32Less(Val(prev_id), Val(last_id)))
    /\ [][(calls' = calls + 1 /\ IsSome(msg') /\ msg' # msg) =>
             Val(msg').header.sequence_id = Val(last_id')]_vars

\* after two ids and a reset, a factory stamped the second id of the new
\* run
SequenceWitness ==
    /\ calls = 4
    /\ first_id = Some(U32(1))
    /\ prev_id = Some(U32(1))
    /\ last_id = Some(U32(2))
    /\ IsSome(msg)
    /\ Val(msg).header.sequence_id = U32(2)

(* ------------------------------------------------------------------ *)
(* Payloads around the maximum message size                            *)
(* ------------------------------------------------------------------ *)
Zeros(n) == [i \in 1..n |-> 0]

\* short payloads, a payload of exactly the maximum size, one byte more
SizedPayloads ==
    Payloads \cup {Zeros(max_message_size_), Zeros(max_message_size_ + 1)}

MakeSized ==
    /\ Idle
    /\ \E p \in SizedPayloads : NewMessage(DATA, p, NORMAL)

NextSize ==
    \/ get_next_sequence_id
    \/ MakeSized
    \/ DoSerialize
    \/ Drop

SpecSize == Init /\ [][NextSize]_vars

\* C5: serialize returns no value exactly when the payload is longer than
\* the maximum message size (65536), a payload of exactly that size
\* included among the accepted ones; the call leaves the sequence counter
\* as it was.
OversizeRejected ==
    /\ [](sent # NotYet =>
             (sent = None <=> Len(Val(msg).payload) > 65536))
    /\ [][(sent = NotYet /\ sent' # NotYet) =>
             sequence_counter_' = sequence_counter_]_vars

\* after an id was issued, a payload of exactly 65536 bytes was serialized
\* into a frame of 32 + 65536 bytes
OversizeRejectedWitness ==
    /\ IsSome(sent)
    /\ Len(Val(msg).payload) = 65536
    /\ Len(Val(sent)) = 65568
    /\ sequence_counter_ = U32(1)

(* ------------------------------------------------------------------ *)
(* UdpClient: lifecycle, send accounting, close, start_receive_async   *)
(* ------------------------------------------------------------------ *)
\* C6: is_connected() is false before the first initialize(), true after
\* every initialize() that returns Success, false after an initialize()
\* that returns an error code, and false after every close().
IsConnectedLifecycle ==
    /\ ~is_connected
    /\ [][(~is_connected /\ is_connected') =>
             (Initialize /\ ret' = "SUCCESS")]_vars
    /\ [][Initialize => (is_connected' <=> ret' = "SUCCESS")]_vars
    /\ [][(CloseCleanup \/ (CloseBegin /\ main_pc' = "ready")) =>
             ~is_connected']_vars

\* a client that was connected and did I/O has been closed, and a later
\* initialize() has failed
IsConnectedLifecycleWitness ==
    /\ ~is_connected
    /\ main_pc = "ready"
    /\ sendto_calls > 0
    /\ should_stop_
    /\ ret = "SOCKET_CREATE_FAILED"

\* C7: the counters start at zero; a send or send_string of n > 0 bytes on
\* an initialized client either succeeds, returns Success and adds 1 to
\* packets_sent and n to bytes_sent, or fails in the transport, returns
\* SocketSendFailed and adds 1 to send_errors; nothing else changes.
SendAccounting ==
    /\ stats_ = ZeroStats
    /\ [][\A d \in SendData, ok \in BOOLEAN :
            ((Send(d, ok) \/ SendString(d, ok))
                 /\ is_initialized_ /\ Len(d) > 0) =>
               IF ok
               THEN /\ ret' = "SUCCESS"
                    /\ stats_' = [stats_ EXCEPT
                                     !.packets_sent = @ + 1,
                                     !.bytes_sent = @ + Len(d)]
               ELSE /\ ret' = "SOCKET_SEND_FAILED"
                    /\ stats_' = [stats_ EXCEPT !.send_errors = @ + 1]]_vars

\* with no background thread ever started, one send of MaxLen bytes has
\* succeeded and a later one has failed
SendAccountingWitness ==
    /\ stats_.packets_sent = 1
    /\ stats_.bytes_sent = MaxLen
    /\ stats_.send_errors = 1
    /\ ret = "SOCKET_SEND_FAILED"
    /\ receive_thread_ = "none" /\ keep_alive_thread_ = "none"
    /\ ~should_stop_

\* C8: send on a client that is not initialized returns SocketInitFailed,
\* also for an empty payload; send of an empty payload on an initialized
\* client returns InvalidParameter; in both cases sendto is not called and
\* no statistics counter changes.
SendRejected ==
    [][\A d \in SendData, ok \in BOOLEAN :
         ((Send(d, ok) \/ SendString(d, ok))
              /\ (~is_initialized_ \/ Len(d) = 0)) =>
            /\ ret' = IF ~is_initialized_ THEN "SOCKET_INIT_FAILED"
                      ELSE "INVALID_PARAMETER"
            /\ stats_' = stats_
            /\ sendto_calls' = sendto_calls]_vars

\* an initialized client has refused an empty payload and has sent nothing
SendRejectedWitness ==
    /\ ret = "INVALID_PARAMETER"
    /\ is_initialized_
    /\ stats_ = ZeroStats
    /\ sendto_calls = 0

\* C9: close() on an initialized client returns only after the stop flag
\* is set and both loop threads have terminated; the socket is released
\* only when no loop thread is left; afterwards the client is neither
\* receiving nor connected; close() on a client that is not initialized
\* changes nothing.
CloseJoinsThenReleases ==
    /\ [](socket_ = INVALID_FD =>
             (receive_thread_ = "none" /\ keep_alive_thread_ = "none"))
    /\ [][CloseCleanup =>
             /\ should_stop_
             /\ receive_thread_ = "none" /\ keep_alive_thread_ = "none"
             /\ socket_' = INVALID_FD
             /\ ~is_receiving_' /\ ~is_connected'
             /\ main_pc' = "ready"]_vars
    /\ [][(CloseBegin /\ ~is_initialized_) => UNCHANGED cvars]_vars

\* a client whose receive loop took a datagram and whose keep-alive loop
\* was started has been closed
CloseJoinsThenReleasesWitness ==
    /\ main_pc = "ready"
    /\ ~is_connected /\ ~is_receiving_
    /\ should_stop_
    /\ socket_ = INVALID_FD
    /\ stats_.packets_received = 1
    /\ stats_.packets_sent = 1

\* C10: start_receive_async returns SocketInitFailed and starts no thread
\* on a client that is not initialized; on a client that is receiving it
\* returns Success, starts no thread and keeps the recorded callbacks;
\* otherwise it sets the receiving flag and starts one receive-loop thread,
\* and a keep-alive thread exactly when enable_keep_alive is true.
StartReceiveAsyncCases ==
    [][\A cb \in CallbackPairs :
         StartReceiveAsync(cb[1], cb[2]) =>
            IF ~is_initialized_
            THEN /\ ret' = "SOCKET_INIT_FAILED"
                 /\ UNCHANGED <<cthreads, is_receiving_>>
            ELSE IF is_receiving_
            THEN /\ ret' = "SUCCESS"
                 /\ UNCHANGED <<cthreads, ccallbacks>>
            ELSE /\ ret' = "SUCCESS"
                 /\ is_receiving_'
                 /\ receive_thread_ = "none" /\ receive_thread_' = "top"
                 /\ IF enable_keep_alive
                    THEN /\ keep_alive_thread_ = "none"
                         /\ keep_alive_thread_' = "top"
                    ELSE /\ keep_alive_thread_ = "none"
                         /\ keep_alive_thread_' = "none"
                 /\ ~crashed']_vars

\* receiving was started with keep-alive switched off: the receive loop
\* runs and there is no keep-alive thread
StartReceiveAsyncWitness ==
    /\ is_receiving_
    /\ ~enable_keep_alive
    /\ receive_thread_ = "recv"
    /\ keep_alive_thread_ = "none"
    /\ message_callback_ = "on_message_2"
    /\ ret = "SUCCESS"

(* ------------------------------------------------------------------ *)
(* UdpClient: termination of stop_receive_async                        *)
(* ------------------------------------------------------------------ *)
\* recvfrom returns without a datagram: the receive timeout set on the
\* socket expires (EAGAIN / WSAETIMEDOUT), or receive() returns at once
\* because the client is not initialized
RxTimeout == RxReceive /\ UNCHANGED <<stats_, recvfrom_calls>>

\* Scheduling: a thread that can take a step takes it, a sleep ends, a
\* join returns once the joined thread function has returned, and a
\* recvfrom on a socket with a receive timeout returns when it expires.
\* Nothing obliges the network to deliver a datagram.
SpecClientFair ==
    /\ SpecClient
    /\ WF_vars(RxCheck) /\ WF_vars(RxTimeout) /\ WF_vars(RxSleep)
    /\ WF_vars(KaCheck) /\ WF_vars(KaWake)
    /\ WF_vars(StopJoinRx) /\ WF_vars(StopJoinKa)
    /\ WF_vars(CloseStopJoinRx) /\ WF_vars(CloseStopJoinKa)
    /\ WF_vars(CloseJoinRx) /\ WF_vars(CloseJoinKa) /\ WF_vars(CloseCleanup)

\* C11: after a successful start_receive_async, a stop_receive_async()
\* that found the client receiving eventually returns, and when it has
\* returned no loop thread is left and the receiving flag is false.
StopEventuallyReturns ==
    (main_pc = "stop_join_rx") ~>
        (main_pc = "ready" /\ ~is_receiving_
            /\ receive_thread_ = "none" /\ keep_alive_thread_ = "none")

(* ------------------------------------------------------------------ *)
(* Logger: queue, worker, levels                                       *)
(* ------------------------------------------------------------------ *)
SpecLogger == Init /\ [][NextLogger]_vars
\* the worker thread exists and has not been asked to stop
WorkerRunning ==
    /\ async_enabled_ /\ ~logger_should_stop_
    /\ async_thread_ \notin {"none", "finished"}

\* the records of thread t that are queued, or popped by the worker and
\* not written yet
Pending(t) ==
    {log_queue_[i].id : i \in {j \in 1..Len(log_queue_) :
                                  log_queue_[j].thread = t}}
      \cup (IF IsSome(record) /\ Val(record).thread = t
            THEN {Val(record).id} ELSE {})

\* C12: in async mode with the worker running, at the moment a flush()
\* returns to a thread, none of the records that thread logged before is
\* still queued and none is popped by the worker but not yet written.
FlushWritesAll ==
    [][\A t \in Callers :
         (FlushTail(t) /\ WorkerRunning) => Pending(t) = {}]_vars
\* C13: the queue never holds more records than the capacity given to
\* enable_async; a log() that finds the queue full ends without waiting
\* and without enqueuing, and a dropped record is never written.
QueueBounded ==
    /\ [](Len(log_queue_) <= buffer_size_)
    /\ [](\A i \in 1..Len(written) : written[i].id \notin dropped)
    /\ [][\A t \in Callers :
            (LogEnqueue(t) /\ Len(log_queue_) >= buffer_size_) =>
               /\ log_queue_' = log_queue_ /\ written' = written
               /\ lpc'[t] = "idle" /\ lrec'[t] = None
               /\ Val(lrec[t]).id \in dropped']_vars
\* the position at which record id was accepted into the queue
EnqPos(id) == CHOOSE k \in 1..Len(enqueued) : enqueued[k] = id

Accepted == {enqueued[k] : k \in 1..Len(enqueued)}

\* C14: records accepted into the queue are written in the order in which
\* they were enqueued, each at most once.
FifoOrder ==
    \A i, j \in 1..Len(written) :
        (i < j /\ written[i].id \in Accepted /\ written[j].id \in Accepted)
            => EnqPos(written[i].id) < EnqPos(written[j].id)

\* two records of different threads were enqueued against the order of
\* their log() calls, and the worker has written both
FifoOrderWitness ==
    /\ Len(enqueued) >= 2 /\ enqueued[1] > enqueued[2]
    /\ Len(written) >= 2
    /\ written[1].id = enqueued[1] /\ written[2].id = enqueued[2]
    /\ written[1].thread # written[2].thread
(* ------------------------------------------------------------------ *)
(* Logger: level gating                                                *)
(* ------------------------------------------------------------------ *)
NextLevel ==
    \/ DoSetLevel
    \/ DoLogAny
    \/ DoEnableAsync
    \/ DoLogEnqueue

SpecLevel == Init /\ [][NextLevel]_vars

\* log(l, ...) writes or enqueues a record only if is_enabled(l)
LogOnlyIfEnabled ==
    \A t \in Callers, l \in LogLevels :
        (Log(t, l) /\ (written' # written \/ lrec' # lrec)) => is_enabled(l)

\* is_enabled(l) exactly when l >= c, and the Debug case
EnabledFromLevel ==
    /\ \A l \in LogLevels : is_enabled(l) <=> l >= level_
    /\ level_ = DEBUG =>
          (~is_enabled(TRACE) /\ is_enabled(DEBUG) /\ is_enabled(LOG_ERROR))

SpecConfig == Init /\ [][NextConfig]_vars

KnownKeys == ConfigKeys \cup DOMAIN DefaultConfig

StringDefault == <<"d", "f", "l", "t">>
\* defaults that no value set and no failed conversion gives
IntDefaults == {77, -1}

\* has, size and get_all_keys describe the keys set and not removed since
MapView ==
    /\ \A k \in KnownKeys : has(k) <=> k \in DOMAIN typed
    /\ size = Cardinality(DOMAIN typed)
    /\ get_all_keys = DOMAIN typed

\* the getters return the default exactly for an absent key, and the
\* last value set, converted, for a present one
GetReturns ==
    \A k \in KnownKeys :
        IF k \notin DOMAIN typed
        THEN /\ get_string(k, StringDefault) = StringDefault
             /\ \A d \in IntDefaults : get_int(k, d) = d
             /\ \A b \in BOOLEAN : get_bool(k, b) = b
        ELSE /\ typed[k][1] = "string" =>
                  /\ get_string(k, StringDefault) = typed[k][2]
                  /\ ~IsSome(stoi(typed[k][2])) =>
                         \A d \in IntDefaults : get_int(k, d) = 0
             /\ typed[k][1] = "int" =>
                  /\ \A d \in IntDefaults : get_int(k, d) = typed[k][2]
                  /\ get_string(k, StringDefault) = to_string(typed[k][2])
             /\ typed[k][1] = "bool" =>
                  /\ \A b \in BOOLEAN : get_bool(k, b) = typed[k][2]
                  /\ \A d \in IntDefaults : get_int(k, d) = 0

\* remove(k) returns true exactly when k was present
RemoveReturns ==
    [][\A t \in Callers, k \in ConfigKeys :
           remove(t, k) => config_ret' = (k \in DOMAIN typed)]_vars

\* C16: the manager is a finite map from key to the last value set:
\* has, size and get_all_keys follow the keys set and not removed,
\* remove reports whether the key was present, and get_string, get_int
\* and get_bool return the stored value converted (0 from get_int for a
\* text that is no number) or the default for an absent key
FiniteMap == [](MapView /\ GetReturns) /\ RemoveReturns

\* a default key was removed and reported present, and a key holds a
\* text that is no number, read as 0 where the default is 77
FiniteMapWitness ==
    /\ config_ret = TRUE
    /\ ~has(<<"s", "e", "r", "v", "e", "r", ".", "p", "o", "r", "t">>)
    /\ \A d \in IntDefaults : get_int(<<"s", "e", "r", "v", "e", "r", ".", "p", "o", "r", "t">>, d) = d
    /\ has(<<"t", "e", "s", "t", ".", "k", "e", "y">>)
    /\ typed[<<"t", "e", "s", "t", ".", "k", "e", "y">>][1] = "string"
    /\ ~IsSome(stoi(typed[<<"t", "e", "s", "t", ".", "k", "e", "y">>][2]))
    /\ \A d \in IntDefaults : get_int(<<"t", "e", "s", "t", ".", "k", "e", "y">>, d) = 0
(* ------------------------------------------------------------------ *)
(* The change callback                                                 *)
(* ------------------------------------------------------------------ *)
\* thread t makes one of the five setter calls on key
SetterStep(t, key) ==
    \/ \E i \in ListItems : set_item(t, key, i)
    \/ \E v \in StringValues : set_string(t, key, v)
    \/ \E v \in IntValues : set_int(t, key, v)
    \/ \E v \in BOOLEAN : set_bool(t, key, v)
    \/ \E v \in DoubleValues : set_double(t, key, v)

AnySetterStep == \E t \in Callers, k \in ConfigKeys : SetterStep(t, k)

\* a setter enters the registered callback once, with the key, the item
\* stored before (a default-constructed one for an absent key) and the
\* item stored now; with no callback registered it enters none
SetterInvokesOnce ==
    [][\A t \in Callers, k \in ConfigKeys :
           SetterStep(t, k) =>
               IF change_callback_ # "null"
               THEN /\ invocations' = invocations + 1
                    /\ config_pc'[t] = "callback"
                    /\ config_call'[t].cb = change_callback_
                    /\ config_call'[t].key = k
                    /\ IF k \in DOMAIN config_items_
                       THEN config_call'[t].old = config_items_[k]
                       ELSE config_call'[t].old \in DefaultItems
                    /\ config_call'[t].new = config_items_'[k]
               ELSE /\ invocations' = invocations
                    /\ config_pc'[t] = "idle"]_vars

\* no other step enters a callback
OnlySettersInvoke == [][~AnySetterStep => invocations' = invocations]_vars

\* the slot holds the callback registered last, and none after
\* unregister_change_callback
LastRegistrationWins ==
    [][\A t \in Callers :
           /\ \A cb \in Callbacks :
                  register_change_callback(t, cb) => change_callback_' = cb
           /\ unregister_change_callback(t) => change_callback_' = "null"]_vars

\* a callback that throws leaves the new item stored and set returns
FailureContained ==
    [][\A t \in Callers :
           CallbackThrow(t) =>
               /\ config_pc'[t] = "idle"
               /\ config_mutex_' = "free"
               /\ has(config_call[t].key)'
               /\ config_items_'[config_call[t].key] = config_call[t].new]_vars

\* C17: while a callback is registered each setter call invokes it
\* exactly once with the key, the old item and the new item; the callback
\* invoked is the one registered last, none is invoked after unregister,
\* and a callback that fails leaves the value stored and set returning
ChangeCallbackContract ==
    /\ SetterInvokesOnce
    /\ OnlySettersInvoke
    /\ LastRegistrationWins
    /\ FailureContained

\* a throwing callback was invoked for a key that was absent, and the
\* set that invoked it has returned with the item stored
ChangeCallbackWitness ==
    \E t \in Callers :
        /\ config_call[t].cb = "on_change_throws"
        /\ config_pc[t] = "idle"
        /\ invocations = 1
        /\ config_call[t].old \in DefaultItems
        /\ has(config_call[t].key)
        /\ config_items_[config_call[t].key] = config_call[t].new
\* C18: config_mutex_ is not held by a thread while it runs the change
\* callback, and no callback is left waiting in get, has, get_string or
\* set for a mutex its own thread holds
CallbacksRunUnlocked ==
    \A t \in Callers :
        /\ config_pc[t] = "callback" => config_mutex_ # t
        /\ config_pc[t] # "relock"
(* ------------------------------------------------------------------ *)
(* import_config and load_config                                       *)
(* ------------------------------------------------------------------ *)
\* C19: import_config of a text that is not of the requested format
\* returns PROTOCOL_ERROR and leaves the key map as it was
MalformedImportRejected ==
    [][\A t \in Callers, x \in Malformed :
           import_config(t, x[1], x[2]) =>
               /\ config_code' = "PROTOCOL_ERROR"
               /\ config_items_' = config_items_]_vars
\* C20: load_config of a non-empty path that names no file that can be
\* opened returns SUCCESS and leaves every key and value as it was
MissingFileKeepsConfig ==
    [][\A t \in Callers, p \in ConfigPaths :
           (load_config(t, p) /\ p # <<>> /\ ~Openable(p)) =>
               /\ config_code' = "SUCCESS"
               /\ config_items_' = config_items_]_vars

\* a path naming no file was loaded into a manager whose map had been
\* changed from the defaults
MissingFileWitness ==
    /\ config_file_ = <<"n", "o", "n", "e", ".", "i", "n", "i">>
    /\ ~Openable(config_file_)
    /\ config_code = "SUCCESS"
    /\ has(<<"t", "e", "s", "t", ".", "k", "e", "y">>)
    /\ config_items_ # DefaultConfig
(* ------------------------------------------------------------------ *)
(* Saving and loading; the environment                                 *)
(* ------------------------------------------------------------------ *)
SpecPersist == Init /\ [][NextPersist]_vars

\* a key of letters, digits, underscores and dots
PlainKey(key) ==
    \A i \in 1..Len(key) :
        \/ \E j \in 1..26 : key[i] \in {UpperCase[j], LowerCase[j]}
        \/ IsDigit(key[i])
        \/ key[i] \in {"_", "."}

\* a value with no line break and no blank at either end
PlainValue(value) ==
    /\ \A i \in 1..Len(value) : value[i] # "\n"
    /\ value # <<>> => ~IsBlank(value[1]) /\ ~IsBlank(value[Len(value)])

\* the manager is as its constructor left it
Fresh ==
    /\ config_items_ = DefaultConfig
    /\ config_file_ = <<>>
    /\ change_callback_ = "null"

\* C21: a map of plain keys and plain values saved to an INI path and
\* loaded from that path into a new manager gives, for every saved key,
\* get_string equal to the saved value
IniRoundTrip ==
    [][\A t \in Callers, p \in SavePaths :
           (/\ load_config(t, p)
            /\ Fresh
            /\ p \in DOMAIN saved
            /\ get_file_extension(p) = INI_FORMAT
            /\ \A k \in DOMAIN saved[p] :
                   PlainKey(k) /\ PlainValue(saved[p][k].value))
           => \A k \in DOMAIN saved[p] :
                  get_string(k, <<"?">>)' = saved[p][k].value]_vars
\* the key of set_defaults() that stands for each of the six variables
EnvTargets ==
    <<<<"s", "e", "r", "v", "e", "r", ".", "h", "o", "s", "t">>, <<"s", "e", "r", "v", "e", "r", ".", "p", "o", "r", "t">>, <<"c", "l", "i", "e", "n", "t", ".", "t", "i", "m", "e", "o", "u", "t", "_", "m", "s">>,
      <<"c", "l", "i", "e", "n", "t", ".", "m", "a", "x", "_", "r", "e", "t", "r", "i", "e", "s">>, <<"c", "l", "i", "e", "n", "t", ".", "e", "n", "a", "b", "l", "e", "_", "k", "e", "e", "p", "_", "a", "l", "i", "v", "e">>,
      <<"l", "o", "g", ".", "l", "e", "v", "e", "l">>>>

\* C22: load_from_environment stores the value of each of the six
\* variables that is set as a string item under the key the defaults
\* install for it, and changes no other key
EnvOverwritesDefaults ==
    [][\A t \in Callers, p \in {ENV_PREFIX, <<"A", "P", "P", "_">>}, e \in Environments :
           load_from_environment(t, p, e) =>
               LET found == {i \in 1..6 : p \o ENV_VARS[i] \in DOMAIN e}
               IN /\ \A i \in found :
                         /\ has(EnvTargets[i])'
                         /\ config_items_'[EnvTargets[i]].type = STRING_T
                         /\ config_items_'[EnvTargets[i]].value
                                = e[p \o ENV_VARS[i]]
                  /\ \A k \in (DOMAIN config_items_ \cup DOMAIN config_items_')
                                  \ {EnvTargets[i] : i \in found} :
                         /\ k \in DOMAIN config_items_
                         /\ k \in DOMAIN config_items_'
                         /\ config_items_'[k] = config_items_[k]]_vars
(* ------------------------------------------------------------------ *)
(* UdpClient move operations (udp_client.cpp 41-86)                    *)
(* ------------------------------------------------------------------ *)
\* After a move the client variables describe the target of the move; the
\* record source describes the client moved from.  The thread functions
\* started by start_receive_async captured the this pointer of the client
\* they were started on, so loops running at the time of the move go on
\* reading the members of the source.

\* the running loops, if any, belong to the client the variables describe
OwnLoops == ~source.loops

\* what the move leaves in the client moved from: socket_ = -1,
\* is_initialized_ = false, is_receiving_ = false; should_stop_ keeps its
\* value; a thread handle that was joinable means a loop still runs on it;
\* via records which of the two operations made the move
MovedFrom(via) ==
    [state |-> "alive", via |-> via, socket_ |-> INVALID_FD, is_initialized_ |-> FALSE,
     is_receiving_ |-> FALSE, should_stop_ |-> should_stop_,
     loops |-> receive_thread_ # "none" \/ keep_alive_thread_ # "none"]

\* UdpClient::UdpClient(UdpClient&& other): the new client takes over the
\* socket, the flags, the statistics, the thread handles and the callbacks
MoveConstruct ==
    /\ Ready /\ source.state = "none"
    /\ source' = MovedFrom("constructor")
    /\ UNCHANGED <<cflags, socket_, sock_timeout, enable_keep_alive, stats_,
                   cthreads, ccallbacks, main_pc, ret, cenv, protovars,
                   lvars, gvars, svars, avars, xvars>>

\* UdpClient::operator=(UdpClient&& other) on a client that was never
\* initialized: its close() returns at once, then the same transfer
MoveAssign ==
    /\ Ready /\ source.state = "none"
    /\ source' = MovedFrom("assignment")
    /\ UNCHANGED <<cflags, socket_, sock_timeout, enable_keep_alive, stats_,
                   cthreads, ccallbacks, main_pc, ret, cenv, protovars,
                   lvars, gvars, svars, avars, xvars>>

\* UdpClient::~UdpClient() of the client moved from: close() returns at
\* once because is_initialized_ is false; no join, no closesocket
DestroySource ==
    /\ Ready /\ source.state = "alive"
    /\ source' = [source EXCEPT !.state = "destroyed"]
    /\ UNCHANGED <<cflags, socket_, sock_timeout, enable_keep_alive, stats_,
                   cthreads, ccallbacks, main_pc, ret, cenv, protovars,
                   lvars, gvars, svars, avars, xvars>>

\* the values a loop can read from the should_stop_ of the source: the
\* stored value while the source exists, anything once it is destroyed
SourceStop ==
    IF source.state = "destroyed" THEN BOOLEAN ELSE {source.should_stop_}

\* receive_loop of the source: while (!should_stop_)
MovedRxCheck ==
    /\ source.loops /\ receive_thread_ = "top" /\ ~crashed
    /\ \E stop \in SourceStop :
          receive_thread_' = IF stop THEN "finished" ELSE "recv"
    /\ UNCHANGED <<cflags, socket_, sock_timeout, enable_keep_alive, stats_,
                   keep_alive_thread_, ccallbacks, main_pc, ret, cenv,
                   protovars, ovars>>

\* receive_loop of the source: receive() returns SOCKET_INIT_FAILED at once
\* because the is_initialized_ of the source is false, or a recvfrom that
\* was under way at the move returns; the statistics of the target are not
\* touched
MovedRxReceive ==
    /\ source.loops /\ receive_thread_ = "recv" /\ ~crashed
    /\ \/ UNCHANGED recvfrom_calls
       \/ /\ is_initialized_ /\ IoLeft
          /\ recvfrom_calls' = recvfrom_calls + 1
    /\ receive_thread_' = "sleep"
    /\ UNCHANGED <<cflags, socket_, sock_timeout, enable_keep_alive, stats_,
                   keep_alive_thread_, ccallbacks, main_pc, ret,
                   sendto_calls, crashed, protovars, ovars>>

\* receive_loop of the source: sleep_for(1ms)
MovedRxSleep ==
    /\ source.loops /\ receive_thread_ = "sleep" /\ ~crashed
    /\ receive_thread_' = "top"
    /\ UNCHANGED <<cflags, socket_, sock_timeout, enable_keep_alive, stats_,
                   keep_alive_thread_, ccallbacks, main_pc, ret, cenv,
                   protovars, ovars>>

\* keep_alive_loop of the source: while (!should_stop_), the sleep, if
\* (should_stop_) break, and send(heartbeat), which returns
\* SOCKET_INIT_FAILED at once because the source is not initialized
MovedKeepAlive ==
    /\ source.loops /\ keep_alive_thread_ \in {"top", "sleep"} /\ ~crashed
    /\ \E stop \in SourceStop :
          keep_alive_thread_' =
              IF stop THEN "finished"
              ELSE IF keep_alive_thread_ = "top" THEN "sleep" ELSE "top"
    /\ UNCHANGED <<cflags, socket_, sock_timeout, enable_keep_alive, stats_,
                   receive_thread_, ccallbacks, main_pc, ret, cenv,
                   protovars, ovars>>

\* a loop of a destroyed source dereferences a dangling this pointer
MovedLoopFault ==
    /\ source.loops /\ source.state = "destroyed" /\ ~crashed
    /\ receive_thread_ \in {"top", "recv", "sleep"}
          \/ keep_alive_thread_ \in {"top", "sleep"}
    /\ crashed' = TRUE
    /\ UNCHANGED <<cflags, socket_, sock_timeout, enable_keep_alive, stats_,
                   cthreads, ccallbacks, main_pc, ret, sendto_calls,
                   recvfrom_calls, protovars, ovars>>

NextMove ==
    \/ Initialize
    \/ DoStartReceiveAsync
    \/ StopBegin
    \/ StopJoinRx
    \/ StopJoinKa
    \/ CloseBegin
    \/ CloseStopJoinRx
    \/ CloseStopJoinKa
    \/ CloseJoinRx
    \/ CloseJoinKa
    \/ CloseCleanup
    \/ SetTimeout
    \/ (OwnLoops /\ RxCheck)
    \/ (OwnLoops /\ RxReceive)
    \/ (OwnLoops /\ RxSleep)
    \/ (OwnLoops /\ KaCheck)
    \/ (OwnLoops /\ KaWake)
    \/ MoveConstruct
    \/ MoveAssign
    \/ DestroySource
    \/ MovedRxCheck
    \/ MovedRxReceive
    \/ MovedRxSleep
    \/ MovedKeepAlive
    \/ MovedLoopFault

SpecMove == Init /\ [][NextMove]_vars

\* Scheduling as in SpecClientFair: every thread that can take a step
\* takes it and a join returns once the joined thread function has
\* returned.  Nothing obliges the program to destroy the source.
SpecMoveFair ==
    /\ SpecMove
    /\ WF_vars(OwnLoops /\ RxCheck) /\ WF_vars(OwnLoops /\ RxTimeout)
    /\ WF_vars(OwnLoops /\ RxSleep)
    /\ WF_vars(OwnLoops /\ KaCheck) /\ WF_vars(OwnLoops /\ KaWake)
    /\ WF_vars(MovedRxCheck) /\ WF_vars(MovedRxReceive)
    /\ WF_vars(MovedRxSleep)
    /\ WF_vars(MovedKeepAlive)
    /\ WF_vars(StopJoinRx) /\ WF_vars(StopJoinKa)
    /\ WF_vars(CloseStopJoinRx) /\ WF_vars(CloseStopJoinKa)
    /\ WF_vars(CloseJoinRx) /\ WF_vars(CloseJoinKa) /\ WF_vars(CloseCleanup)

\* the move leaves the source not connected and not receiving and gives
\* the target the socket and the flags the source had
MoveHandsOver ==
    [][(MoveConstruct \/ MoveAssign) =>
          /\ ~source'.is_initialized_ /\ ~source'.is_receiving_
          /\ source'.socket_ = INVALID_FD
          /\ socket_' = socket_ /\ is_initialized_' = is_initialized_
          /\ is_receiving_' = is_receiving_]_vars

\* destroying the source takes one step of the caller, closes no socket
\* and joins no thread
SourceDestroyedQuietly ==
    [][DestroySource =>
          /\ main_pc' = "ready" /\ socket_' = socket_
          /\ cthreads' = cthreads]_vars

\* C23: after a move from a client that was receiving, the source is not
\* connected and not receiving, the target owns the socket, the source
\* can be destroyed without blocking and without touching the socket, and
\* stop_receive_async() and close() on the target stop the loops and
\* return.
MovedLoopsStop ==
    /\ MoveHandsOver
    /\ SourceDestroyedQuietly
    /\ (source.loops /\ main_pc = "stop_join_rx") ~> (main_pc = "ready")
    /\ (source.loops /\ main_pc = "close_stop_join_rx") ~> (main_pc = "ready")
(* ------------------------------------------------------------------ *)
(* UdpClient statistics, one read or write at a time                   *)
(* (udp_client.cpp 313-323, 437-458)                                   *)
(* ------------------------------------------------------------------ *)
MaxStat == 4

\* the statistics operations a thread can come to: the update at the end
\* of a successful or failed sendto or recvfrom, and the two calls of the
\* interface.  Sends come from send(), from the thread of send_async and
\* from keep_alive_loop (two bytes, 'H' 'B'); receives from receive() and
\* from receive_loop.
StatOps(t) ==
    LET sends == {<<"sent", n>> : n \in 1..MaxLen} \cup {<<"send_error", 0>>}
        beats == {<<"sent", 2>>, <<"send_error", 0>>}
        recvs == {<<"received", n>> : n \in RecvSizes}
                     \cup {<<"receive_error", 0>>}
        asked == {<<"get", 0>>, <<"reset", 0>>}
    IN CASE t = "caller" -> sends \cup recvs \cup asked
         [] t = "send_async" -> sends
         [] t = "keep_alive_loop" -> beats
         [] t = "receive_loop" -> recvs

\* the counter an update increments, and the byte total it adds to
CountField(op) ==
    CASE op = "sent" -> "packets_sent"
      [] op = "received" -> "packets_received"
      [] op = "send_error" -> "send_errors"
      [] op = "receive_error" -> "receive_errors"

BytesField(op) == IF op = "sent" THEN "bytes_sent" ELSE "bytes_received"

\* everything of the model the statistics steps leave alone
nonstats ==
    <<cflags, socket_, sock_timeout, enable_keep_alive, cthreads, ccallbacks,
      main_pc, ret, cenv, mvars, avars, xvars, protovars, lvars, gvars>>

\* a thread reaches update_stats_sent, update_stats_received,
\* update_stats_error, get_statistics or reset_statistics
StatCall(t, op, bytes) ==
    /\ stat_thread[t].pc = "idle" /\ stat_ops < MaxStat
    /\ stat_thread' = [stat_thread EXCEPT
                          ![t] = [pc |-> "lock", op |-> op, bytes |-> bytes,
                                  tmp |-> 0]]
    /\ stat_ops' = stat_ops + 1
    /\ UNCHANGED <<stats_, stats_mutex_, snapshot, completed, nonstats>>

\* mutant: the operations do not wait for stats_mutex_
StatsFree_unlocked == TRUE

\* std::lock_guard<std::mutex> lock(stats_mutex_) can be taken
StatsFree == stats_mutex_ = "none"

\* std::lock_guard<std::mutex> lock(stats_mutex_)
StatLock(t) ==
    /\ stat_thread[t].pc = "lock" /\ StatsFree
    /\ stats_mutex_' = t
    /\ stat_thread' = [stat_thread EXCEPT
                          ![t].pc = CASE stat_thread[t].op = "get" -> "copy"
                                      [] stat_thread[t].op = "reset" -> "assign"
                                      [] OTHER -> "count_load"]
    /\ UNCHANGED <<stats_, snapshot, completed, stat_ops, nonstats>>

\* stats_.packets_sent++ and its like: the read
StatCountLoad(t) ==
    /\ stat_thread[t].pc = "count_load"
    /\ stat_thread' = [stat_thread EXCEPT
                          ![t].pc = "count_store",
                          ![t].tmp = stats_[CountField(stat_thread[t].op)]]
    /\ UNCHANGED <<stats_, stats_mutex_, snapshot, completed, stat_ops,
                   nonstats>>

\* the end of an update: the lock_guard lets go of stats_mutex_ and the
\* update counts among the completed ones
StatUnlock(t) ==
    LET op == stat_thread[t].op
        whole == [completed EXCEPT ![CountField(op)] = @ + 1]
    IN /\ stats_mutex_' = IF stats_mutex_ = t THEN "none" ELSE stats_mutex_
       /\ completed' = IF op \in {"sent", "received"}
                       THEN [whole EXCEPT
                                ![BytesField(op)] = @ + stat_thread[t].bytes]
                       ELSE whole

\* stats_.packets_sent++ and its like: the write.  update_stats_error ends
\* here.
StatCountStore(t) ==
    /\ stat_thread[t].pc = "count_store"
    /\ stats_' = [stats_ EXCEPT
                     ![CountField(stat_thread[t].op)] = stat_thread[t].tmp + 1]
    /\ IF stat_thread[t].op \in {"sent", "received"}
       THEN /\ stat_thread' = [stat_thread EXCEPT ![t].pc = "bytes_load"]
            /\ UNCHANGED <<stats_mutex_, completed>>
       ELSE /\ stat_thread' = [stat_thread EXCEPT ![t] = StatIdle]
            /\ StatUnlock(t)
    /\ UNCHANGED <<snapshot, stat_ops, nonstats>>

\* stats_.bytes_sent += bytes and its like: the read
StatBytesLoad(t) ==
    /\ stat_thread[t].pc = "bytes_load"
    /\ stat_thread' = [stat_thread EXCEPT
                          ![t].pc = "bytes_store",
                          ![t].tmp = stats_[BytesField(stat_thread[t].op)]]
    /\ UNCHANGED <<stats_, stats_mutex_, snapshot, completed, stat_ops,
                   nonstats>>

\* stats_.bytes_sent += bytes and its like: the write, and the end of
\* update_stats_sent and update_stats_received
StatBytesStore(t) ==
    /\ stat_thread[t].pc = "bytes_store"
    /\ stats_' = [stats_ EXCEPT
                     ![BytesField(stat_thread[t].op)] =
                         stat_thread[t].tmp + stat_thread[t].bytes]
    /\ stat_thread' = [stat_thread EXCEPT ![t] = StatIdle]
    /\ StatUnlock(t)
    /\ UNCHANGED <<snapshot, stat_ops, nonstats>>

\* get_statistics: return stats_
get_statistics(t) ==
    /\ stat_thread[t].pc = "copy"
    /\ snapshot' = stats_
    /\ stats_mutex_' = IF stats_mutex_ = t THEN "none" ELSE stats_mutex_
    /\ stat_thread' = [stat_thread EXCEPT ![t] = StatIdle]
    /\ UNCHANGED <<stats_, completed, stat_ops, nonstats>>

\* reset_statistics: stats_ = Statistics{}
reset_statistics(t) ==
    /\ stat_thread[t].pc = "assign"
    /\ stats_' = ZeroStats
    /\ completed' = ZeroStats
    /\ stats_mutex_' = IF stats_mutex_ = t THEN "none" ELSE stats_mutex_
    /\ stat_thread' = [stat_thread EXCEPT ![t] = StatIdle]
    /\ UNCHANGED <<snapshot, stat_ops, nonstats>>

DoStatCall == \E t \in StatThreads : \E o \in StatOps(t) : StatCall(t, o[1], o[2])

DoStatLock == \E t \in StatThreads : StatLock(t)

DoStatCountLoad == \E t \in StatThreads : StatCountLoad(t)

DoStatCountStore == \E t \in StatThreads : StatCountStore(t)

DoStatBytesLoad == \E t \in StatThreads : StatBytesLoad(t)

DoStatBytesStore == \E t \in StatThreads : StatBytesStore(t)

DoGetStatistics == \E t \in StatThreads : get_statistics(t)

DoResetStatistics == \E t \in StatThreads : reset_statistics(t)

NextStats ==
    \/ DoStatCall
    \/ DoStatLock
    \/ DoStatCountLoad
    \/ DoStatCountStore
    \/ DoStatBytesLoad
    \/ DoStatBytesStore
    \/ DoGetStatistics
    \/ DoResetStatistics

SpecStats == Init /\ [][NextStats]_vars

\* no update is lost: whenever no thread is inside an operation on the
\* statistics, the counters are the totals of the completed updates
NoUpdateLost ==
    (\A t \in StatThreads : stat_thread[t].pc \in {"idle", "lock"})
        => stats_ = completed

\* every snapshot is made of whole updates: the copy get_statistics
\* returns is the totals of the updates completed at that moment
SnapshotWhole == [][DoGetStatistics => snapshot' = completed]_vars

\* C24: under any interleaving of sends, receives, get_statistics and
\* reset_statistics on one client no counter update is lost and every
\* snapshot shows, for sends and for receives, the packet count and the
\* byte total of the same set of completed operations since the last
\* reset.
StatisticsSerialized == []NoUpdateLost /\ SnapshotWhole

\* a snapshot returned after a send of two bytes and a receive ran to
\* their end, while another thread waits for stats_mutex_
StatisticsWitness ==
    /\ snapshot.packets_sent = 1 /\ snapshot.bytes_sent = 2
    /\ snapshot.packets_received = 1
    /\ \E t \in StatThreads : stat_thread[t].pc = "lock"
(* ------------------------------------------------------------------ *)
(* UdpClient::send_async (udp_client.cpp 180-188)                      *)
(* ------------------------------------------------------------------ *)
\* the completion callbacks a caller passes: a function or an empty
\* std::function
AsyncCallbacks == {"on_sent", "null"}

\* send_async(data, callback): std::thread([this, data, callback, ...]
\* {...}).detach(); the call returns as soon as the thread is started
SendAsync(i, data, callback) ==
    /\ Ready
    /\ async_task[i].pc = "unused"
    /\ \A j \in AsyncIds : j < i => async_task[j].pc # "unused"
    /\ async_task' = [async_task EXCEPT
                         ![i] = [NoTask EXCEPT !.pc = "started",
                                               !.data = data,
                                               !.callback = callback]]
    /\ UNCHANGED <<cflags, socket_, sock_timeout, enable_keep_alive, stats_,
                   cthreads, ccallbacks, main_pc, ret, cenv, mvars, svars,
                   xvars, protovars, lvars, gvars>>

\* the thread of send_async: auto result = send(data, target_host,
\* target_port)
AsyncSend(i, ok) ==
    /\ async_task[i].pc = "started" /\ ~crashed
    /\ send(async_task[i].data, ok)
    /\ async_task' = [async_task EXCEPT
                         ![i].pc = "sent",
                         ![i].result = send_code(async_task[i].data, ok)]
    /\ UNCHANGED <<cflags, socket_, sock_timeout, enable_keep_alive,
                   cthreads, ccallbacks, main_pc, ret, recvfrom_calls,
                   crashed, mvars, svars, xvars, protovars, lvars, gvars>>

\* mutant: the callback is only told of a send that went through
AsyncCallback_success_only(i) ==
    /\ async_task[i].pc = "sent" /\ ~crashed
    /\ async_task' =
          IF async_task[i].callback # "null"
                /\ async_task[i].result = "SUCCESS"
          THEN [async_task EXCEPT
                   ![i].pc = "done", ![i].invoked = @ + 1,
                   ![i].code = async_task[i].result]
          ELSE [async_task EXCEPT ![i].pc = "done"]
    /\ UNCHANGED <<cflags, socket_, sock_timeout, enable_keep_alive, stats_,
                   cthreads, ccallbacks, main_pc, ret, cenv, mvars, svars,
                   xvars, protovars, lvars, gvars>>

\* the thread of send_async: if (callback) callback(result); the thread
\* function returns
AsyncCallback(i) ==
    /\ async_task[i].pc = "sent" /\ ~crashed
    /\ async_task' =
          IF async_task[i].callback # "null"
          THEN [async_task EXCEPT
                   ![i].pc = "done", ![i].invoked = @ + 1,
                   ![i].code = async_task[i].result]
          ELSE [async_task EXCEPT ![i].pc = "done"]
    /\ UNCHANGED <<cflags, socket_, sock_timeout, enable_keep_alive, stats_,
                   cthreads, ccallbacks, main_pc, ret, cenv, mvars, svars,
                   xvars, protovars, lvars, gvars>>

\* the buffers given to send_async: an empty one and one of one byte
AsyncData == {<<>>, <<72>>}

DoSendAsync ==
    \E i \in AsyncIds, d \in AsyncData, cb \in AsyncCallbacks :
        SendAsync(i, d, cb)

DoAsyncSend == \E i \in AsyncIds, ok \in BOOLEAN : AsyncSend(i, ok)

DoAsyncCallback == \E i \in AsyncIds : AsyncCallback(i)

NextAsync ==
    \/ Initialize
    \/ CloseBegin
    \/ CloseJoinRx
    \/ CloseJoinKa
    \/ CloseCleanup
    \/ DoSendAsync
    \/ DoAsyncSend
    \/ DoAsyncCallback

SpecAsync == Init /\ [][NextAsync]_vars

\* Scheduling: a started thread runs, and a close() under way goes on (its
\* joins find no loop thread here)
SpecAsyncFair ==
    /\ SpecAsync
    /\ WF_vars(DoAsyncSend) /\ WF_vars(DoAsyncCallback)
    /\ WF_vars(CloseJoinRx) /\ WF_vars(CloseJoinKa) /\ WF_vars(CloseCleanup)

\* the call itself sends nothing, counts nothing and leaves the caller
\* free for its next operation
AsyncReturnsAtOnce ==
    [][DoSendAsync =>
          /\ main_pc' = "ready" /\ stats_' = stats_
          /\ sendto_calls' = sendto_calls]_vars

\* the code of the background send is the one send gives for the state the
\* client is in when the thread runs
AsyncSendCode ==
    [][\A i \in AsyncIds :
          (async_task[i].pc = "started" /\ async_task'[i].pc = "sent") =>
              async_task'[i].result =
                  IF ~is_initialized_ THEN "SOCKET_INIT_FAILED"
                  ELSE IF async_task[i].data = <<>> THEN "INVALID_PARAMETER"
                  ELSE IF sendto_calls' = sendto_calls + 1
                          /\ stats_'.packets_sent = stats_.packets_sent + 1
                       THEN "SUCCESS"
                  ELSE "SOCKET_SEND_FAILED"]_vars

\* a callback is never invoked twice, is not invoked before the send has
\* returned, and is told the code the send returned
AsyncCallbackOnce ==
    \A i \in AsyncIds :
        /\ async_task[i].invoked <= 1
        /\ async_task[i].pc \in {"unused", "started", "sent"}
              => async_task[i].invoked = 0
        /\ async_task[i].pc = "done" /\ async_task[i].callback # "null"
              => /\ async_task[i].invoked = 1
                 /\ async_task[i].code = async_task[i].result

\* every thread started comes to its end
AsyncCompletes ==
    \A i \in AsyncIds :
        (async_task[i].pc = "started") ~> (async_task[i].pc = "done")

\* C25: send_async returns without waiting for the send, and the callback
\* it was given is invoked exactly once, with the code the send returned:
\* SUCCESS, SOCKET_SEND_FAILED, INVALID_PARAMETER for empty data, or
\* SOCKET_INIT_FAILED when the client is not initialized when the thread
\* runs.
SendAsyncContract ==
    /\ AsyncReturnsAtOnce
    /\ AsyncSendCode
    /\ []AsyncCallbackOnce
    /\ AsyncCompletes

\* two calls made on an initialized client; the client was closed before
\* the thread of the second one ran: the first callback was told SUCCESS,
\* the second SOCKET_INIT_FAILED
SendAsyncWitness ==
    /\ async_task[1].pc = "done" /\ async_task[1].invoked = 1
    /\ async_task[1].code = "SUCCESS"
    /\ async_task[2].pc = "done" /\ async_task[2].invoked = 1
    /\ async_task[2].code = "SOCKET_INIT_FAILED"
    /\ async_task[2].data # <<>>
(* ------------------------------------------------------------------ *)
(* MessageProtocol::validate_message (message_protocol.cpp 319-322)    *)
(* ------------------------------------------------------------------ *)
\* mutant: a buffer with bytes after the declared payload is not valid
validate_message_whole(compression, encryption, data) ==
    LET message == deserialize(compression, encryption, data)
    IN /\ IsSome(message)
       /\ Len(data) = header_size + Len(Val(message).payload)

\* auto message = deserialize(data);
\* return message.has_value() && message->is_valid()
validate_message(compression, encryption, data) ==
    LET message == deserialize(compression, encryption, data)
    IN IsSome(message) /\ Message_is_valid(Val(message))

\* the variables of the client and of nothing else
clientvars ==
    <<cflags, socket_, sock_timeout, enable_keep_alive, stats_, cthreads,
      ccallbacks, main_pc, ret, cenv>>

\* validate_message(wire)
Validate ==
    /\ wire # NotYet /\ ~validated.done
    /\ validated' =
          [done |-> TRUE, data |-> Val(wire),
           result |-> validate_message(compression_enabled_,
                                       encryption_enabled_, Val(wire))]
    /\ UNCHANGED <<hvars, pvars, ivars, clientvars, lvars, gvars, mvars,
                   svars, avars, unowned_workers, wvars>>

\* bytes that follow the frame in the buffer
Trailers == {<<0>>, <<255, 1>>}

\* the frame arrives with bytes after the declared payload
AppendWire ==
    /\ IsSome(sent) /\ wire = sent /\ decoded = NotYet
    /\ \E extra \in Trailers : wire' = Some(Val(wire) \o extra)
    /\ UNCHANGED <<ovars, cvars, msg, sent, decoded, pvars, ivars>>

\* Message(MessageType::DATA, payload): a message that takes no sequence
\* id from the protocol
MakeDataByConstructor ==
    /\ Idle
    /\ \E p \in Payloads : NewMessage(DATA, p, NORMAL)

NextValidate ==
    \/ MakeDataByConstructor
    \/ DoSerialize
    \/ CorruptHeader
    \/ TruncateWire
    \/ AppendWire
    \/ ReceiveRaw
    \/ Deserialize
    \/ Validate

SpecValidate == Init /\ [][NextValidate]_vars

\* C26: validate_message(b) is true exactly when deserialize(b) returns a
\* message; every message deserialize returns, also from a buffer with
\* bytes after the declared payload, has the magic number 0x55AA55AA and
\* a header payload_size equal to the length of its payload; and
\* validate_message(serialize(m)) is true for every message serialize
\* accepts.
ValidateIffDeserializes ==
    /\ validated.done =>
          validated.result =
              IsSome(deserialize(compression_enabled_, encryption_enabled_,
                                 validated.data))
    /\ IsSome(decoded) =>
          /\ Val(decoded).header.magic_number = MAGIC
          /\ Val(decoded).header.payload_size = U32(Len(Val(decoded).payload))
    /\ (validated.done /\ IsSome(sent) /\ validated.data = Val(sent))
          => validated.result

\* a frame followed by two more bytes was deserialized and validated: the
\* message holds the declared payload only
ValidateWitness ==
    /\ IsSome(sent) /\ IsSome(decoded)
    /\ Val(wire) = Val(sent) \o <<255, 1>>
    /\ validated.done /\ validated.data = Val(wire) /\ validated.result
    /\ Len(Val(decoded).payload) = Len(Val(wire)) - header_size - 2
    /\ Val(decoded).payload # <<>>
(* ------------------------------------------------------------------ *)
(* Logger: termination of flush() and disable_async()                  *)
(* ------------------------------------------------------------------ *)
\* the wait of the worker ends because a notification reached it
WorkerWakeNotified == notified /\ WorkerWake

\* Scheduling: a thread that can take its next step takes it, a mutex
\* that stays free is acquired, join returns once the worker function has
\* returned.  A wait on the condition variable is sure to end only when a
\* notification reached it; spurious wakeups may happen but are not
\* promised.
SpecLoggerFair ==
    /\ SpecLogger
    /\ \A t \in Callers :
          /\ WF_vars(LogEnqueue(t))
          /\ WF_vars(FlushLock(t)) /\ WF_vars(FlushTail(t))
          /\ WF_vars(DisableNotify(t)) /\ WF_vars(DisableJoin(t))
    /\ WF_vars(WorkerCheck) /\ WF_vars(WorkerLock) /\ WF_vars(WorkerBlock)
    /\ WF_vars(WorkerWakeNotified)
    /\ WF_vars(WorkerDrain) /\ WF_vars(WorkerWrite) /\ WF_vars(WorkerRelock)

\* a flush() that waits for the queue to drain does not keep the worker
\* from taking queue_mutex_
FlushLeavesMutex ==
    \A t \in Callers : lpc[t] = "flush_spin" => queue_mutex_ # t

\* C27: in async mode with the worker running, a flush() called while the
\* queue is non-empty eventually returns: while it waits for the queue to
\* drain the worker can dequeue and write the remaining records.
FlushEventuallyReturns ==
    /\ []FlushLeavesMutex
    /\ \A t \in Callers :
          (lpc[t] \in {"flush_lock", "flush_spin"} /\ log_queue_ # <<>>
              /\ WorkerRunning)
            ~> (lpc[t] = "idle")

\* C28: disable_async() on an async-enabled logger always returns: in
\* every interleaving with the worker, also when the worker has evaluated
\* its wait predicate and not blocked yet, the worker sees the stop
\* request, leaves its loop and is joined.
DisableEventuallyReturns ==
    \A t \in Callers :
        (lpc[t] = "disable_notify") ~>
            (lpc[t] = "idle" /\ async_thread_ = "none")

\* C29: when disable_async() returns the queue is empty and every record
\* accepted into the queue, also those accepted while disable_async was
\* running, has been written exactly once.
DisableDrains ==
    [][\A t \in Callers :
          (DisableJoin(t) /\ async_enabled_) =>
              /\ log_queue_' = <<>>
              /\ \A id \in Accepted :
                    Cardinality({i \in 1..Len(written') :
                                    written'[i].id = id}) = 1]_vars
(* ------------------------------------------------------------------ *)
(* Logger::enable_async called from several threads (logger.cpp        *)
(* 216-226)                                                            *)
(* ------------------------------------------------------------------ *)
\* the process has not been terminated
Alive == ~crashed

\* what the steps of enable_async leave alone besides the logger members
\* they write
nonlogger ==
    <<protovars, clientvars, mvars, svars, avars, validated, wvars, gvars>>

\* enable_async: if (async_enabled_) return
EnableCheck(t) ==
    /\ Alive /\ lpc[t] = "idle"
    /\ lpc' = [lpc EXCEPT ![t] = IF async_enabled_ THEN "idle"
                                 ELSE "enable_set"]
    /\ UNCHANGED <<level_, async_enabled_, logger_should_stop_, log_queue_,
                   buffer_size_, queue_mutex_, async_thread_, notified,
                   record, written, lrec, next_id, enqueued, dropped,
                   unowned_workers, protovars, clientvars, mvars, svars,
                   avars, validated, wvars, gvars>>

\* enable_async: buffer_size_ = buffer_size; async_enabled_ = true;
\* should_stop_ = false
EnableSet(t, buffer_size) ==
    /\ Alive /\ lpc[t] = "enable_set"
    /\ buffer_size_' = buffer_size
    /\ async_enabled_' = TRUE
    /\ logger_should_stop_' = FALSE
    /\ lpc' = [lpc EXCEPT ![t] = "enable_start"]
    /\ UNCHANGED <<level_, log_queue_, queue_mutex_, async_thread_, notified,
                   record, written, lrec, next_id, enqueued, dropped,
                   unowned_workers, protovars, clientvars, mvars, svars,
                   avars, validated, wvars, gvars>>

\* enable_async: async_thread_ = std::thread([this]() { async_worker(); })
\* The new thread is started first; the move assignment to a handle that
\* is still joinable calls std::terminate.
EnableStart(t) ==
    /\ Alive /\ lpc[t] = "enable_start"
    /\ IF async_thread_ = "none"
       THEN /\ async_thread_' = "top"
            /\ UNCHANGED <<unowned_workers, crashed>>
       ELSE /\ unowned_workers' = unowned_workers + 1
            /\ crashed' = TRUE
            /\ UNCHANGED async_thread_
    /\ lpc' = [lpc EXCEPT ![t] = "idle"]
    /\ UNCHANGED <<level_, async_enabled_, logger_should_stop_, log_queue_,
                   buffer_size_, queue_mutex_, notified, record, written,
                   lrec, next_id, enqueued, dropped, protovars, cflags,
                   socket_, sock_timeout, enable_keep_alive, stats_,
                   cthreads, ccallbacks, main_pc, ret, sendto_calls,
                   recvfrom_calls, mvars, svars, avars, validated, wvars,
                   gvars>>

DoEnableCheck == \E t \in Callers : EnableCheck(t)

DoEnableSet == \E t \in Callers, n \in BufferSizes : EnableSet(t, n)

DoEnableStart == \E t \in Callers : EnableStart(t)

NextEnable ==
    \/ DoEnableCheck
    \/ DoEnableSet
    \/ DoEnableStart
    \/ (Alive /\ DoDisableBegin)
    \/ (Alive /\ DoDisableNotify)
    \/ (Alive /\ DoDisableJoin)
    \/ (Alive /\ WorkerCheck)
    \/ (Alive /\ WorkerLock)
    \/ (Alive /\ WorkerBlock)
    \/ (Alive /\ WorkerWake)

SpecEnable == Init /\ [][NextEnable]_vars

\* the threads running async_worker
Workers ==
    (IF async_thread_ \in {"none", "finished"} THEN 0 ELSE 1)
        + unowned_workers

\* C30: at most one worker thread exists per logger in every reachable
\* state: enable_async on an enabled logger starts nothing, enable /
\* disable / enable leaves one running worker, and two enable_async calls
\* racing from different threads start one worker only and never overwrite
\* the handle of a running worker.
SingleWorker ==
    /\ [](Workers <= 1 /\ ~crashed)
    /\ [][\A t \in Callers :
            (EnableCheck(t) /\ async_enabled_) =>
                /\ async_thread_' = async_thread_ /\ lpc'[t] = "idle"]_vars(* ------------------------------------------------------------------ *)
(* Log file rotation (logger.cpp 185-209, 309-317, 387-403, 436-510)   *)
(*                                                                     *)
(* A file of the log directory is None when it does not exist,         *)
(* otherwise the sequence of the lines it holds; a line carries the    *)
(* number of the write that made it and its size in bytes, the newline *)
(* included.  file_output runs under log_mutex_, so a write and the    *)
(* rotation it causes are one step.  The directory is fresh and the    *)
(* file operations succeed.                                            *)
(* ------------------------------------------------------------------ *)
\* what the operations of the file output leave alone
nonrotation ==
    <<protovars, clientvars, mvars, svars, avars, validated, unowned_workers,
      lvars, gvars, kvars, qvars, evars, tvars, bvars>>

\* the values of max_size_mb a caller passes
SizesMb == {0, 1}

\* the sizes of the formatted lines
LineSizes == {1, 1048576}

RECURSIVE FileSize(_)
\* fs::file_size
FileSize(lines) ==
    IF lines = <<>> THEN 0 ELSE Head(lines).bytes + FileSize(Tail(lines))

\* the rotated file of an index: stem + "." + index + extension, a name
\* that differs from file_path_ for every index, 0 included
get_rotated_filename(dir, index) == dir.rotated[index]

\* set_file_output(file_path, max_size_mb, max_files): the stream is
\* opened for append, which creates the file
SetFileOutput(max_size_mb, max_files) ==
    /\ ~file_stream_
    /\ max_file_size_mb_' = max_size_mb
    /\ max_files_' = max_files
    /\ file_stream_' = TRUE
    /\ log_dir' = [log_dir EXCEPT !.live = IF @ = None THEN Some(<<>>) ELSE @]
    /\ UNCHANGED <<file_lines, rotations, nonrotation>>

\* should_rotate(), asked about a directory
should_rotate(dir) ==
    /\ file_stream_
    /\ dir.live # None
    /\ FileSize(Val(dir.live)) > max_file_size_mb_ * 1024 * 1024

RECURSIVE RenameDown(_, _)
\* perform_rotation: for (int i = ...; i >= 0; --i) rename the file of
\* index i, the live file when i = 0, to index i + 1 if it exists
RenameDown(dir, i) ==
    IF i < 0 THEN dir
    ELSE LET old_name == IF i = 0 THEN dir.live
                         ELSE get_rotated_filename(dir, i)
             renamed ==
                 IF old_name = None THEN dir
                 ELSE IF i = 0
                 THEN [dir EXCEPT !.rotated[1] = old_name, !.live = None]
                 ELSE [dir EXCEPT !.rotated[i + 1] = old_name,
                                  !.rotated[i] = None]
         IN RenameDown(renamed, i - 1)

\* perform_rotation(): remove the file of index max_files_ - 1, rename
\* from int i = max_files_ - 2 downwards (max_files_ is a size_t: for
\* max_files_ = 1 the difference wraps and i starts at -1), reopen the live
\* file for append
perform_rotation(dir, max_files) ==
    LET removed == [dir EXCEPT !.rotated[max_files - 1] = None]
        renamed == RenameDown(removed, max_files - 2)
    IN [renamed EXCEPT !.live = IF @ = None THEN Some(<<>>) ELSE @]

\* file_output(formatted_message): write the line, flush, rotate when the
\* file has grown beyond the limit
FileOutput(bytes) ==
    /\ file_stream_
    /\ file_lines < MaxLines
    /\ LET line == [id |-> file_lines + 1, bytes |-> bytes]
           appended ==
               [log_dir EXCEPT !.live = Some(Append(Val(@), line))]
       IN IF should_rotate(appended)
          THEN /\ log_dir' = perform_rotation(appended, max_files_)
               /\ rotations' = rotations + 1
          ELSE /\ log_dir' = appended
               /\ UNCHANGED rotations
    /\ file_lines' = file_lines + 1
    /\ UNCHANGED <<max_file_size_mb_, max_files_, file_stream_, nonrotation>>

\* rotate_files(): if (!should_rotate()) return; perform_rotation()
RotateFiles ==
    /\ IF should_rotate(log_dir)
       THEN /\ log_dir' = perform_rotation(log_dir, max_files_)
            /\ rotations' = rotations + 1
       ELSE UNCHANGED <<log_dir, rotations>>
    /\ rotations < MaxLines
    /\ UNCHANGED <<max_file_size_mb_, max_files_, file_stream_, file_lines,
                   nonrotation>>

DoSetFileOutput ==
    \E mb \in SizesMb, mf \in 1..MaxFiles : SetFileOutput(mb, mf)

DoFileOutput == \E bytes \in LineSizes : FileOutput(bytes)

NextRotate ==
    \/ DoSetFileOutput
    \/ DoFileOutput
    \/ RotateFiles

SpecRotate == Init /\ [][NextRotate]_vars

\* the log files that exist
LogFiles ==
    {i \in 0..MaxFiles : log_dir.rotated[i] # None}

\* a rotation leaves an empty live file, holds what the live file held in
\* the file of index 1, and has moved every other rotated file up by one
RotationShifts ==
    [][rotations' # rotations =>
          /\ log_dir'.live = Some(<<>>)
          /\ max_files_ >= 2 =>
                /\ log_dir'.rotated[1] # None
                /\ log_dir.live # None
                /\ LET kept == Val(log_dir.live)
                       moved == Val(log_dir'.rotated[1])
                   IN /\ Len(moved) >= Len(kept)
                      /\ SubSeq(moved, 1, Len(kept)) = kept
                /\ \A i \in 1..(max_files_ - 2) :
                      log_dir'.rotated[i + 1] = log_dir.rotated[i]]_vars

\* rotated files exist at indices 1 to max_files - 1 only
RotatedInRange ==
    file_stream_ => LogFiles \subseteq 1..(max_files_ - 1)

\* C31: for every max_files >= 1 a rotation discards the oldest rotated
\* file, moves every rotated file up by one index, moves the content of
\* the live file to index 1 and leaves a live file that starts empty; at
\* most max_files log files exist at any time.
RotationBounded ==
    /\ RotationShifts
    /\ [](RotatedInRange /\ Cardinality(LogFiles) + 1 <= max_files_)(* ------------------------------------------------------------------ *)
(* The bodies of receive_loop and keep_alive_loop with their           *)
(* callbacks (udp_client.cpp 373-435)                                  *)
(*                                                                     *)
(* A pass through the body of a loop is one step of its thread: the    *)
(* call of receive or send and the callback invocation that follows.   *)
(* A callback returns, throws an exception derived from std::exception *)
(* or throws something else; the loops catch const std::exception&     *)
(* only, so anything else leaves the thread function and               *)
(* std::terminate is called.                                           *)
(* ------------------------------------------------------------------ *)
\* what the bodies of the loops leave alone besides the client
nonloops ==
    <<protovars, mvars, svars, avars, validated, unowned_workers, rvars,
      lvars, gvars, qvars, evars, tvars, bvars>>

\* how an invocation of a callback ends
CallbackOutcomes == {"returns", "throws_std_exception", "throws_other"}

\* the addresses datagrams come from
Senders == {<<"10.0.0.7", 9000>>, <<"10.0.0.8", 9001>>}

\* the datagram of n bytes
Datagram(n) == [i \in 1..n |-> 72]

\* what receive(buffer, from_host, from_port) returns and leaves in its
\* reference parameters on success (on a failure no callback is given the
\* buffer, which is left out then)
ReceiveResults ==
    {[code |-> "SUCCESS", buffer |-> Datagram(n), from |-> a] :
        n \in RecvSizes, a \in Senders}
    \cup {[code |-> c, buffer |-> <<>>, from |-> <<>>] :
            c \in {"SOCKET_INIT_FAILED", "TIMEOUT", "SOCKET_RECEIVE_FAILED"}}

\* receive() can return this now
ReceivePossible(res) ==
    IF res.code = "SOCKET_INIT_FAILED" THEN ~is_initialized_
    ELSE /\ is_initialized_
         /\ IF res.code = "TIMEOUT" THEN sock_timeout ELSE IoLeft

\* the callback invocations of one pass of receive_loop
ReceiveCalls(res) ==
    IF res.code = "SUCCESS"
    THEN IF message_callback_ # "null"
         THEN <<[callback |-> message_callback_,
                 args |-> <<res.buffer, res.from[1], res.from[2]>>]>>
         ELSE <<>>
    ELSE IF res.code # "TIMEOUT"
    THEN IF error_callback_ # "null"
         THEN <<[callback |-> error_callback_,
                 args |-> <<res.code, "Receive error">>]>>
         ELSE <<>>
    ELSE <<>>

\* receive_loop: receive(), then the message callback on success, the
\* error callback on a failure that is not a timeout, then on to the sleep
ReceiveLoopBody ==
    /\ receive_thread_ = "recv" /\ ~crashed
    /\ rx.iterations <= MaxIo
    /\ \E res \in ReceiveResults, how \in CallbackOutcomes :
          LET calls_made == ReceiveCalls(res)
              escapes == calls_made # <<>> /\ how = "throws_other"
          IN /\ ReceivePossible(res)
             /\ stats_' =
                   IF res.code = "SUCCESS"
                   THEN update_stats_received(stats_, Len(res.buffer))
                   ELSE IF res.code = "SOCKET_RECEIVE_FAILED"
                   THEN update_stats_error(stats_, FALSE)
                   ELSE stats_
             /\ recvfrom_calls' =
                   IF res.code \in {"SUCCESS", "SOCKET_RECEIVE_FAILED"}
                   THEN recvfrom_calls + 1 ELSE recvfrom_calls
             /\ rx' = [iterations |-> rx.iterations + 1, code |-> res.code,
                       buffer |-> res.buffer, from |-> res.from,
                       calls |-> calls_made]
             /\ crashed' = escapes
             /\ receive_thread_' = IF escapes THEN receive_thread_
                                   ELSE "sleep"
    /\ UNCHANGED <<cflags, socket_, sock_timeout, enable_keep_alive,
                   keep_alive_thread_, ccallbacks, main_pc, ret,
                   sendto_calls, ka, nonloops>>

\* the server address of the configuration: UdpConfig{}.server_host and
\* server_port
ServerAddress == <<DEFAULT_HOST, DEFAULT_PORT>>

\* the callback invocations of one pass of keep_alive_loop
KeepAliveCalls_silent(code) == <<>>

KeepAliveCalls(code) ==
    IF code # "SUCCESS" /\ error_callback_ # "null"
    THEN <<[callback |-> error_callback_,
            args |-> <<code, "Keep-alive failed">>]>>
    ELSE <<>>

\* keep_alive_loop: the sleep ends; if (should_stop_) break; otherwise
\* send(heartbeat) with heartbeat = {'H', 'B'} and no target, which sends
\* to config_.server_host and config_.server_port, and the error callback
\* when send did not return SUCCESS
KeepAliveBody ==
    /\ keep_alive_thread_ = "sleep" /\ ~crashed
    /\ IF should_stop_
       THEN /\ keep_alive_thread_' = "finished"
            /\ UNCHANGED <<stats_, sendto_calls, ka, crashed>>
       ELSE /\ is_initialized_ => IoLeft
            /\ \E ok \in BOOLEAN, how \in CallbackOutcomes :
                  LET heartbeat == <<72, 66>>
                      result == send_code(heartbeat, ok)
                      calls_made == KeepAliveCalls(result)
                      escapes == calls_made # <<>> /\ how = "throws_other"
                  IN /\ send(heartbeat, ok)
                     /\ ka' = [iterations |-> ka.iterations + 1,
                               code |-> result, data |-> heartbeat,
                               target |-> ServerAddress,
                               calls |-> calls_made]
                     /\ crashed' = escapes
                     /\ keep_alive_thread_' =
                           IF escapes THEN keep_alive_thread_ ELSE "top"
    /\ UNCHANGED <<cflags, socket_, sock_timeout, enable_keep_alive,
                   receive_thread_, ccallbacks, main_pc, ret, recvfrom_calls,
                   rx, nonloops>>

NextLoops ==
    \/ Initialize
    \/ DoStartReceiveAsync
    \/ StopBegin
    \/ StopJoinRx
    \/ StopJoinKa
    \/ CloseBegin
    \/ CloseStopJoinRx
    \/ CloseStopJoinKa
    \/ CloseJoinRx
    \/ CloseJoinKa
    \/ CloseCleanup
    \/ SetTimeout
    \/ RxCheck
    \/ ReceiveLoopBody
    \/ RxSleep
    \/ KaCheck
    \/ KeepAliveBody

SpecLoops == Init /\ [][NextLoops]_vars

\* a pass of the receive loop: one invocation of the message callback,
\* with the bytes received and the address of the sender, after a
\* successful receive; one invocation of the error callback after a failed
\* receive that is no timeout; none after a timeout, which leaves
\* receive_errors as it was; and the loop goes on to its sleep
ReceivePass ==
    [][rx' # rx =>
          /\ (rx'.code = "SUCCESS" /\ message_callback_ # "null") =>
                /\ Len(rx'.calls) = 1
                /\ rx'.calls[1].callback = message_callback_
                /\ rx'.calls[1].args =
                      <<rx'.buffer, rx'.from[1], rx'.from[2]>>
                /\ Len(rx'.buffer) \in RecvSizes
                /\ stats_'.bytes_received =
                      stats_.bytes_received + Len(rx'.buffer)
          /\ (rx'.code \notin {"SUCCESS", "TIMEOUT"}
                 /\ error_callback_ # "null") =>
                /\ Len(rx'.calls) = 1
                /\ rx'.calls[1].callback = error_callback_
                /\ rx'.calls[1].args[1] = rx'.code
          /\ rx'.code = "TIMEOUT" =>
                /\ rx'.calls = <<>>
                /\ stats_'.receive_errors = stats_.receive_errors
          /\ receive_thread_' = "sleep"
          /\ ~crashed']_vars

\* the receive loop leaves its while only when it reads a set stop flag
ReceiveExit ==
    [][(receive_thread_' = "finished" /\ receive_thread_ # "finished")
          => should_stop_]_vars

\* C32: while the receive loop runs, a successful receive invokes the
\* message callback exactly once with the bytes and the sender's address,
\* a failed receive that is no timeout invokes the error callback exactly
\* once, a timeout invokes no callback and does not count as a receive
\* error, the loop keeps iterating after a failed receive and after a
\* failing callback, and it exits only once the stop flag is set.
ReceiveLoopContract == ReceivePass /\ ReceiveExit
\* a pass of the keep-alive loop that sends: the flag was clear when the
\* sleep ended, the two bytes 'H' 'B' went once to the server address of
\* the configuration, a send that failed was reported once through the
\* error callback and a send that succeeded was not, and the loop is
\* back at its condition (the process is gone when the error callback
\* threw what the loop does not catch)
KeepAlivePass ==
    [][ka' # ka =>
          /\ ~should_stop_
          /\ keep_alive_thread_ = "sleep"
          /\ ka'.iterations = ka.iterations + 1
          /\ ka'.data = <<72, 66>>
          /\ ka'.target = <<DEFAULT_HOST, DEFAULT_PORT>>
          /\ sendto_calls' = sendto_calls + 1
          /\ ka'.code \in {"SUCCESS", "SOCKET_SEND_FAILED"}
          /\ (ka'.code # "SUCCESS" /\ error_callback_ # "null") =>
                /\ Len(ka'.calls) = 1
                /\ ka'.calls[1].callback = error_callback_
                /\ ka'.calls[1].args[1] = ka'.code
          /\ ka'.code = "SUCCESS" => ka'.calls = <<>>
          /\ ~crashed' => keep_alive_thread_' = "top"]_vars

\* the end of a sleep: one heartbeat when the stop flag is clear, none
\* and the end of the loop when it is set
KeepAliveWake ==
    [][(keep_alive_thread_ = "sleep" /\ keep_alive_thread_' # "sleep") =>
          IF should_stop_
          THEN /\ ka' = ka
               /\ sendto_calls' = sendto_calls
               /\ keep_alive_thread_' = "finished"
          ELSE ka' # ka]_vars

\* the keep-alive loop leaves its while only when it reads a set stop flag
KeepAliveExit ==
    [][(keep_alive_thread_' = "finished" /\ keep_alive_thread_ # "finished")
          => should_stop_]_vars

nonrace ==
    <<protovars, mvars, svars, avars, validated, unowned_workers, rvars,
      kvars, lvars, gvars, evars, tvars, bvars>>

\* the thread is between two calls
CallIdle(t) == call_pc[t] = "idle" /\ ~crashed

\* start_receive_async: the tests of is_initialized_ and of is_receiving_
StartCheck(t) ==
    /\ CallIdle(t)
    /\ call_pc' = [call_pc EXCEPT ![t] =
                      IF is_initialized_ /\ ~is_receiving_ THEN "start_set"
                      ELSE "idle"]
    /\ ret' = IF ~is_initialized_ THEN "SOCKET_INIT_FAILED"
              ELSE IF is_receiving_ THEN "SUCCESS"
              ELSE ret
    /\ UNCHANGED <<cflags, socket_, sock_timeout, enable_keep_alive, stats_,
                   cthreads, ccallbacks, main_pc, cenv, session_threads,
                   overwritten, nonrace>>

\* start_receive_async: the callbacks are stored, is_receiving_ = true,
\* should_stop_ = false
StartSet(t, message_callback, error_callback) ==
    /\ call_pc[t] = "start_set" /\ ~crashed
    /\ message_callback_' = message_callback
    /\ error_callback_' = error_callback
    /\ is_receiving_' = TRUE
    /\ should_stop_' = FALSE
    /\ call_pc' = [call_pc EXCEPT ![t] = "start_receive_thread"]
    /\ UNCHANGED <<is_initialized_, socket_, sock_timeout, enable_keep_alive,
                   stats_, cthreads, main_pc, ret, cenv, session_threads, overwritten, nonrace>>

\* start_receive_async: receive_thread_ = std::thread(receive_loop)
StartReceiveThread(t) ==
    /\ call_pc[t] = "start_receive_thread" /\ ~crashed
    /\ session_threads' =
          [session_threads EXCEPT !.receive_loop = @ + 1]
    /\ IF receive_thread_ = "none"
       THEN /\ receive_thread_' = "top"
            /\ UNCHANGED <<overwritten, crashed>>
       ELSE /\ overwritten' = overwritten + 1
            /\ crashed' = TRUE
            /\ UNCHANGED receive_thread_
    /\ call_pc' = [call_pc EXCEPT ![t] = "start_keep_alive_thread"]
    /\ UNCHANGED <<cflags, socket_, sock_timeout, enable_keep_alive, stats_,
                   keep_alive_thread_, ccallbacks, main_pc, ret,
                   sendto_calls, recvfrom_calls, nonrace>>

\* start_receive_async: if (config_.enable_keep_alive) keep_alive_thread_ =
\* std::thread(keep_alive_loop); return SUCCESS
StartKeepAliveThread(t) ==
    /\ call_pc[t] = "start_keep_alive_thread" /\ ~crashed
    /\ IF ~enable_keep_alive
       THEN UNCHANGED <<keep_alive_thread_, session_threads, overwritten,
                        crashed>>
       ELSE /\ session_threads' =
                  [session_threads EXCEPT !.keep_alive_loop = @ + 1]
            /\ IF keep_alive_thread_ = "none"
               THEN /\ keep_alive_thread_' = "top"
                    /\ UNCHANGED <<overwritten, crashed>>
               ELSE /\ overwritten' = overwritten + 1
                    /\ crashed' = TRUE
                    /\ UNCHANGED keep_alive_thread_
    /\ ret' = "SUCCESS"
    /\ call_pc' = [call_pc EXCEPT ![t] = "idle"]
    /\ UNCHANGED <<cflags, socket_, sock_timeout, enable_keep_alive, stats_,
                   receive_thread_, ccallbacks, main_pc, sendto_calls,
                   recvfrom_calls, nonrace>>

\* stop_receive_async: if (!is_receiving_) return; should_stop_ = true;
\* is_receiving_ = false
StopFlags(t) ==
    /\ CallIdle(t)
    /\ IF ~is_receiving_
       THEN UNCHANGED <<is_receiving_, should_stop_, call_pc,
                        session_threads>>
       ELSE /\ should_stop_' = TRUE
            /\ is_receiving_' = FALSE
            /\ session_threads' = NoThreads
            /\ call_pc' = [call_pc EXCEPT ![t] = "stop_join_receive"]
    /\ UNCHANGED <<is_initialized_, socket_, sock_timeout, enable_keep_alive,
                   stats_, cthreads, ccallbacks, main_pc, ret, cenv,
                   overwritten, nonrace>>

\* stop_receive_async: if (receive_thread_.joinable()) receive_thread_.join()
StopJoinReceive(t) ==
    /\ call_pc[t] = "stop_join_receive" /\ ~crashed
    /\ Joined(receive_thread_)
    /\ receive_thread_' = "none"
    /\ call_pc' = [call_pc EXCEPT ![t] = "stop_join_keep_alive"]
    /\ UNCHANGED <<cflags, socket_, sock_timeout, enable_keep_alive, stats_,
                   keep_alive_thread_, ccallbacks, main_pc, ret, cenv,
                   session_threads, overwritten, nonrace>>

\* stop_receive_async: the same for keep_alive_thread_, then return
StopJoinKeepAlive(t) ==
    /\ call_pc[t] = "stop_join_keep_alive" /\ ~crashed
    /\ Joined(keep_alive_thread_)
    /\ keep_alive_thread_' = "none"
    /\ call_pc' = [call_pc EXCEPT ![t] = "idle"]
    /\ UNCHANGED <<cflags, socket_, sock_timeout, enable_keep_alive, stats_,
                   receive_thread_, ccallbacks, main_pc, ret, cenv,
                   session_threads, overwritten, nonrace>>

DoStartCheck == \E t \in Callers : StartCheck(t)

DoStartSet ==
    \E t \in Callers, cb \in CallbackPairs : StartSet(t, cb[1], cb[2])

DoStartReceiveThread == \E t \in Callers : StartReceiveThread(t)

DoStartKeepAliveThread == \E t \in Callers : StartKeepAliveThread(t)

DoStopFlags == \E t \in Callers : StopFlags(t)

DoStopJoinReceive == \E t \in Callers : StopJoinReceive(t)

DoStopJoinKeepAlive == \E t \in Callers : StopJoinKeepAlive(t)

NextRace ==
    \/ Initialize
    \/ DoUpdateConfig
    \/ DoStartCheck
    \/ DoStartSet
    \/ DoStartReceiveThread
    \/ DoStartKeepAliveThread
    \/ DoStopFlags
    \/ DoStopJoinReceive
    \/ DoStopJoinKeepAlive
    \/ RxCheck
    \/ RxReceive
    \/ RxSleep
    \/ KaCheck
    \/ KaWake

SpecRace == Init /\ [][NextRace]_vars

\* a loop thread exists and has not returned from its function
LoopRunning ==
    \/ receive_thread_ \notin {"none", "finished"}
    \/ keep_alive_thread_ \notin {"none", "finished"}
    \/ overwritten > 0

\* C34: when start_receive_async and stop_receive_async, or two
\* start_receive_async calls, run at the same time on an initialized
\* client, at most one receive-loop thread and one keep-alive thread are
\* created per receiving session, no handle of a running thread is
\* assigned over, and once all the calls have returned a false receiving
\* flag implies that no loop thread is running.
StartStopRaceFree ==
    /\ session_threads.receive_loop <= 1
    /\ session_threads.keep_alive_loop <= 1
    /\ overwritten = 0
    /\ ((\A t \in Callers : call_pc[t] = "idle") /\ ~is_receiving_)
          => ~LoopRunning(* ------------------------------------------------------------------ *)
(* export_config while other threads update the manager                *)
(* (config_manager.cpp 274-280, 420-434)                               *)
(*                                                                     *)
(* export_config and config_to_json take no lock.  The range-for of    *)
(* config_to_json is an iterator that walks config_items_ node by      *)
(* node, and every other operation can run between two of its steps.   *)
(* When the node the iterator stands on is erased (remove, clear, the  *)
(* assignment of import_config) the next increment is undefined: the   *)
(* process crashes, or the walk goes on behind that key.  The updates  *)
(* of the other threads are let in one at a time between two steps of  *)
(* the walk, so that export_maps holds every key map the manager went  *)
(* through while the export ran.                                       *)
(* ------------------------------------------------------------------ *)
\* what the steps of export_config leave alone
nonexport ==
    <<protovars, cflags, socket_, sock_timeout, enable_keep_alive, stats_,
      cthreads, ccallbacks, main_pc, ret, sendto_calls, recvfrom_calls,
      mvars, svars, avars, validated, unowned_workers, rvars, kvars, qvars,
      tvars, bvars, lvars, gvars>>

\* pair.second.value for every pair of a key map
ValuesOf(m) == [k \in DOMAIN m |-> m[k].value]

\* the first key of m behind pos (std::map::begin when pos is None, ++it
\* otherwise), None at end()
NextKey(m, pos) ==
    LET later == {k \in DOMAIN m : pos = None \/ StrLess(Val(pos), k)}
    IN IF later = {} THEN None
       ELSE Some(CHOOSE x \in later : \A y \in later \ {x} : StrLess(x, y))

\* the values the manager holds now are on record
Recorded == ValuesOf(config_items_) \in export_maps

\* export_config("json"): config_to_json() starts; for (pair : config_items_)
ExportBegin ==
    /\ export_pc = "idle" /\ ~crashed
    /\ export_pc' = "iterating"
    /\ export_pos' = None
    /\ export_seen' = EmptyMap
    /\ export_maps' = {ValuesOf(config_items_)}
    /\ UNCHANGED <<crashed, nonexport>>

\* config_to_json: the iterator moves on and the pair it reaches is
\* written to the stream, or it reaches end() and the text is returned
ExportStep ==
    /\ export_pc = "iterating" /\ ~crashed
    /\ export_maps' = export_maps \cup {ValuesOf(config_items_)}
    /\ \E fault \in BOOLEAN :
          /\ fault => (export_pos # None
                         /\ Val(export_pos) \notin DOMAIN config_items_)
          /\ crashed' = fault
          /\ IF fault
             THEN UNCHANGED <<export_pc, export_pos, export_seen>>
             ELSE LET it == NextKey(config_items_, export_pos)
                  IN IF it = None
                     THEN /\ export_pc' = "done"
                          /\ UNCHANGED <<export_pos, export_seen>>
                     ELSE /\ export_pos' = it
                          /\ export_seen' =
                                Put(export_seen, Val(it),
                                    config_items_[Val(it)].value)
                          /\ UNCHANGED export_pc
    /\ UNCHANGED nonexport

\* the caller takes the text and is ready for another export
ExportReturn ==
    /\ export_pc = "done" /\ ~crashed
    /\ export_pc' = "idle"
    /\ export_pos' = None
    /\ export_seen' = EmptyMap
    /\ export_maps' = {}
    /\ UNCHANGED <<crashed, nonexport>>

\* the keys set while an export runs: one that the walk reaches early
\* and one that it reaches last
ExportKeys == {<<"c", "l", "i", "e", "n", "t", ".", "m", "a", "x", "_", "r", "e", "t", "r", "i", "e", "s">>, <<"t", "e", "s", "t", ".", "k", "e", "y">>}

DoSetExported ==
    \E t \in Callers, k \in ExportKeys, v \in StringValues :
        set_string(t, k, v)

\* another thread's update can come in: no export is running, or the
\* export has looked at the map since the update before
UpdateTurn == ~crashed /\ (export_pc = "iterating" => Recorded)

NextExport ==
    \/ ExportBegin
    \/ ExportStep
    \/ ExportReturn
    \/ (UpdateTurn /\ DoSetExported)
    \/ (UpdateTurn /\ DoRemove)
    \/ (UpdateTurn /\ DoClear)
    \/ (UpdateTurn /\ DoImport)
    \/ (UpdateTurn /\ DoSave)

SpecExport == Init /\ [][NextExport]_vars

\* C35: every public operation of the manager that reads or writes the
\* key map holds config_mutex_ while it does, so an export_config that
\* runs while other threads call set, remove, clear or import_config
\* returns the key map as it stood after a whole number of their updates.
ExportSeesWholeMap ==
    /\ export_pc = "iterating" => config_mutex_ = "exporter"
    /\ export_pc = "done" => export_seen \in export_maps
    /\ ~crashed(* ------------------------------------------------------------------ *)
(* send on one thread while another closes the client                  *)
(* (udp_client.cpp 107-130, 136-188, 353-371)                          *)
(*                                                                     *)
(* send tests is_initialized_ and later hands socket_ to sendto, with  *)
(* no lock around the two; close() joins the two loop threads and then *)
(* releases the socket.  A send is split between its tests and its     *)
(* sendto.  The detached thread of a send_async is started by the      *)
(* calling thread and runs send on its own.                            *)
(* ------------------------------------------------------------------ *)
\* what the steps of these threads leave alone besides the client
nonsend ==
    <<protovars, mvars, svars, avars, validated, unowned_workers, rvars,
      kvars, qvars, evars, bvars, lvars, gvars>>

\* a thread of the application calls send(data), or the calling thread
\* calls send_async(data), which starts the detached thread and returns
SendCall(s, data) ==
    /\ sender[s].pc = "idle" /\ ~crashed
    /\ s = "send_async" => Ready
    /\ sender' = [sender EXCEPT ![s] = [pc |-> "entered", data |-> data]]
    /\ UNCHANGED <<cflags, socket_, sock_timeout, enable_keep_alive, stats_,
                   cthreads, ccallbacks, main_pc, ret, cenv, released_io,
                   nonsend>>

\* send: the tests of is_initialized_ and of data.empty()
SendEnter(s) ==
    /\ sender[s].pc = "entered" /\ ~crashed
    /\ sender' = [sender EXCEPT ![s] =
                     IF is_initialized_ /\ Len(sender[s].data) > 0
                     THEN [@ EXCEPT !.pc = "sendto"]
                     ELSE NotSending]
    /\ UNCHANGED <<cflags, socket_, sock_timeout, enable_keep_alive, stats_,
                   cthreads, ccallbacks, main_pc, ret, cenv, released_io,
                   nonsend>>

\* send: sendto(socket_, ...) and the statistics.  With socket_ already
\* released the call is made on -1 or on a descriptor that is closed or
\* has been handed out again, and can fail or succeed
SendTransport(s, ok) ==
    /\ sender[s].pc = "sendto" /\ ~crashed
    /\ IoLeft
    /\ sendto_calls' = sendto_calls + 1
    /\ released_io' = IF socket_ = INVALID_FD THEN released_io + 1
                      ELSE released_io
    /\ stats_' = IF ok THEN update_stats_sent(stats_, Len(sender[s].data))
                 ELSE update_stats_error(stats_, TRUE)
    /\ sender' = [sender EXCEPT ![s] = NotSending]
    /\ UNCHANGED <<cflags, socket_, sock_timeout, enable_keep_alive,
                   cthreads, ccallbacks, main_pc, ret, recvfrom_calls,
                   crashed, nonsend>>

DoSendCall == \E s \in SendThreads, d \in AsyncData : SendCall(s, d)

DoSendEnter == \E s \in SendThreads : SendEnter(s)

DoSendTransport == \E s \in SendThreads, ok \in BOOLEAN : SendTransport(s, ok)

NextClose ==
    \/ Initialize
    \/ DoStartReceiveAsync
    \/ CloseBegin
    \/ CloseStopJoinRx
    \/ CloseStopJoinKa
    \/ CloseJoinRx
    \/ CloseJoinKa
    \/ CloseCleanup
    \/ RxCheck
    \/ RxReceive
    \/ RxSleep
    \/ KaCheck
    \/ KaWake
    \/ DoSendCall
    \/ DoSendEnter
    \/ DoSendTransport

SpecClose == Init /\ [][NextClose]_vars

\* a loop thread can still call recvfrom or sendto
LoopAtWork ==
    \/ receive_thread_ \in {"top", "recv", "sleep"}
    \/ keep_alive_thread_ \in {"top", "sleep"}

\* C36: sendto and recvfrom are never called on a socket that close() has
\* released, whether by a send on another thread, by the detached thread
\* of a send_async or by the two loops.
NoIoAfterRelease ==
    /\ released_io = 0
    /\ \A s \in SendThreads : sender[s].pc = "sendto" => socket_ # INVALID_FD
    /\ LoopAtWork => socket_ # INVALID_FD(* ------------------------------------------------------------------ *)
(* background receiving started again after a stop or a close          *)
(* (udp_client.cpp 88-130, 232-276, 373-435)                           *)
(* ------------------------------------------------------------------ *)
\* what the start of a session leaves alone besides the client
nonsession ==
    <<protovars, mvars, svars, avars, validated, unowned_workers, rvars,
      kvars, qvars, evars, tvars, lvars, gvars>>

MaxSessions == 3

\* the loop threads of start_receive_async test should_stop_ as it is when
\* they run; this variant leaves the flag as the last stop or close set it
StartSession_flagkept(mcb, ecb) ==
    /\ Ready
    /\ is_initialized_ /\ ~is_receiving_
    /\ sessions < MaxSessions
    /\ message_callback_' = mcb
    /\ error_callback_' = ecb
    /\ is_receiving_' = TRUE
    /\ UNCHANGED should_stop_
    /\ receive_thread_' = "top"
    /\ keep_alive_thread_' = IF enable_keep_alive THEN "top"
                             ELSE keep_alive_thread_
    /\ crashed' = \/ receive_thread_ # "none"
                  \/ (enable_keep_alive /\ keep_alive_thread_ # "none")
    /\ ret' = "SUCCESS"
    /\ sessions' = sessions + 1
    /\ UNCHANGED <<is_initialized_, socket_, sock_timeout, enable_keep_alive,
                   stats_, main_pc, sendto_calls, recvfrom_calls, nonsession>>

\* start_receive_async(message_callback, error_callback) on an initialized
\* client that is not receiving: the callbacks, is_receiving_ = true,
\* should_stop_ = false, then the threads
StartSession(mcb, ecb) ==
    /\ Ready
    /\ is_initialized_ /\ ~is_receiving_
    /\ sessions < MaxSessions
    /\ message_callback_' = mcb
    /\ error_callback_' = ecb
    /\ is_receiving_' = TRUE
    /\ should_stop_' = FALSE
    /\ receive_thread_' = "top"
    /\ keep_alive_thread_' = IF enable_keep_alive THEN "top"
                             ELSE keep_alive_thread_
    /\ crashed' = \/ receive_thread_ # "none"
                  \/ (enable_keep_alive /\ keep_alive_thread_ # "none")
    /\ ret' = "SUCCESS"
    /\ sessions' = sessions + 1
    /\ UNCHANGED <<is_initialized_, socket_, sock_timeout, enable_keep_alive,
                   stats_, main_pc, sendto_calls, recvfrom_calls, nonsession>>

DoStartSession == \E cb \in CallbackPairs : StartSession(cb[1], cb[2])

NextRestart ==
    \/ Initialize
    \/ DoUpdateConfig
    \/ DoStartSession
    \/ StopBegin
    \/ StopJoinRx
    \/ StopJoinKa
    \/ CloseBegin
    \/ CloseStopJoinRx
    \/ CloseStopJoinKa
    \/ CloseJoinRx
    \/ CloseJoinKa
    \/ CloseCleanup
    \/ RxCheck
    \/ RxReceive
    \/ RxSleep
    \/ KaCheck
    \/ KaWake

SpecRestart == Init /\ [][NextRestart]_vars

\* the receive loop is inside its while loop
ReceiveLoopRuns == receive_thread_ \in {"top", "recv", "sleep"}

\* a step in which a loop thread leaves its while loop
LoopExits ==
    \/ receive_thread_' = "finished" /\ receive_thread_ # "finished"
    \/ keep_alive_thread_' = "finished" /\ keep_alive_thread_ # "finished"

\* a step that starts a session starts the receive loop, and the
\* keep-alive loop when keep-alive is enabled
SessionStartsLoops ==
    sessions' # sessions =>
        /\ receive_thread_' = "top"
        /\ enable_keep_alive => keep_alive_thread_' = "top"

\* C37: background receiving can be started again after a stop and after a
\* close followed by initialize: every start, the first or a later one,
\* starts the loops, the receive loop is running for as long as the client
\* is receiving, and a loop leaves its while loop only once the next stop
\* or close has cleared the receiving flag.
RestartKeepsLoops ==
    /\ [](is_receiving_ /\ ~crashed => ReceiveLoopRuns)
    /\ [][SessionStartsLoops]_vars
    /\ [][LoopExits => ~is_receiving_]_vars

\* a second or later session whose loops have been round their bodies,
\* receiving and sending, while the client is still receiving
RestartWitness ==
    /\ sessions >= 2 /\ is_receiving_ /\ ~crashed
    /\ receive_thread_ = "sleep" /\ keep_alive_thread_ = "top"
    /\ recvfrom_calls >= 1 /\ sendto_calls >= 1(* ------------------------------------------------------------------ *)
(* Message::metadata and the wire frame                                *)
(* (message_protocol.cpp 134-241, 287-301)                             *)
(* ------------------------------------------------------------------ *)
\* metadata maps a message can carry, as sets of key/value pairs
MetadataMaps ==
    {{}, {<<"response_to", U32Zero>>},
     {<<"response_to", U32(7)>>, <<"trace", U32Zero>>}}

\* serialize gives the same result for the held message whatever metadata
\* it carries
SerializeIgnoresMetadata ==
    msg # NotYet =>
        \A meta \in MetadataMaps, ts \in Timestamps :
            serialize(max_message_size_, protocol_version_,
                      compression_enabled_, encryption_enabled_,
                      [Val(msg) EXCEPT !.metadata = meta], ts)
            = serialize(max_message_size_, protocol_version_,
                        compression_enabled_, encryption_enabled_,
                        Val(msg), ts)

\* C38: metadata is not part of the wire frame: the bytes serialize makes
\* of a message do not depend on its metadata, and every message that
\* deserialize returns has an empty metadata map, so the "response_to"
\* entry of a response message is gone after the round trip.
MetadataNotOnWire ==
    /\ SerializeIgnoresMetadata
    /\ (decoded # NotYet /\ decoded # None) => Val(decoded).metadata = {}

\* a response message carrying "response_to" has gone through serialize and
\* deserialize
MetadataWitness ==
    /\ msg # NotYet /\ decoded # NotYet /\ decoded # None
    /\ Val(msg).header.type = RESPONSE
    /\ \E p \in Val(msg).metadata : p[1] = "response_to"
    /\ Val(decoded).header.type = RESPONSE
    /\ Val(decoded).payload = Val(msg).payload(* ------------------------------------------------------------------ *)
(* load_config with an empty path, and reload                          *)
(* (config_manager.cpp 62-87, 270-272)                                 *)
(* ------------------------------------------------------------------ *)
\* reload(): return load_config(config_file_)
reload(t) == load_config(t, config_file_)

DoReload == \E t \in Callers : reload(t)

NextReload ==
    \/ DoLoad
    \/ DoReload
    \/ DoSetString
    \/ DoRemove
    \/ DoClear

SpecReload == Init /\ [][NextReload]_vars

\* a call of load_config, directly or through reload, that returned
\* INVALID_PARAMETER
LoadRefused == (DoLoad \/ DoReload) /\ config_code' = "INVALID_PARAMETER"

\* C39: a load_config that fails with INVALID_PARAMETER because its path
\* is empty leaves the manager as it was, the remembered path included, so
\* that a later reload() loads the file that was in use before.
FailedLoadKeepsPath ==
    [][LoadRefused => UNCHANGED <<config_file_, config_items_>>]_vars(* ------------------------------------------------------------------ *)
(* import_config replaces the key map, load_config merges into it      *)
(* (config_manager.cpp 62-87, 282-348)                                 *)
(* ------------------------------------------------------------------ *)
NextImport ==
    \/ DoImport
    \/ DoLoad
    \/ DoSetString
    \/ DoRemove

SpecImport == Init /\ [][NextImport]_vars

\* the keys a text of the given format has key/value lines for
Mentioned(text, format) ==
    DOMAIN Val(IF format = JSON_FORMAT THEN parse_json(text)
               ELSE parse_ini(text))

\* a successful import_config of the text x[1] in the format x[2]
ImportOf(x) ==
    /\ \E t \in Callers : import_config(t, x[1], x[2])
    /\ config_code' = "SUCCESS"

\* a successful load_config of the existing file p
LoadOf(p) ==
    /\ \E t \in Callers : load_config(t, p)
    /\ config_code' = "SUCCESS"

\* the keys held afterwards are exactly those of the text
ImportReplaces ==
    \A x \in ImportTexts :
        ImportOf(x) =>
            /\ DOMAIN config_items_' = Mentioned(x[1], x[2])
            /\ x \in Malformed => config_items_' = EmptyMap

\* every earlier key that the file does not mention is kept as it was
LoadMerges ==
    \A p \in DOMAIN files :
        LoadOf(p) =>
            \A k \in DOMAIN config_items_ :
                k \notin Mentioned(files[p], get_file_extension(p)) =>
                    /\ k \in DOMAIN config_items_'
                    /\ config_items_'[k] = config_items_[k]

\* C40: a successful import_config replaces the whole key map: afterwards
\* the manager holds exactly the keys parsed from the text, and the empty
\* map when the text has no key/value line; a successful load_config of a
\* file keeps every earlier key that the file does not mention.
ImportReplacesLoadMerges == [][ImportReplaces /\ LoadMerges]_vars

\* after an import the defaults are gone and only the key of the text is
\* held
ImportWitness ==
    /\ config_code = "SUCCESS"
    /\ config_items_ = Val(parse_json(JsonText))
    /\ DOMAIN DefaultConfig \cap DOMAIN config_items_ = {}
====
